---- MODULE Spec2Model ----
(***************************************************************************)
(* A model of the SBOM risk analyzer: the dependency discovery pipeline    *)
(* (services/geminiService.ts), the throttled GitHub fetcher               *)
(* (services/githubService.ts) and the dependency tree kept by App.tsx.    *)
(*                                                                         *)
(* JavaScript strings are sequences of one-character strings, a Map is the *)
(* sequence of its entries in insertion order, and objects whose identity  *)
(* matters (tree nodes, arrays) live in a heap of addressed cells.         *)
(***************************************************************************)
EXTENDS Integers, Sequences, FiniteSets, TLC

VARIABLES
    \* ---- one discoverDependencies run (geminiService.ts) ----
    phase,            \* position of the run
    fileTree,         \* result of getRepoFileTree
    sourceFilePaths,  \* fileTree filtered to source files
    manifestPaths,    \* fileTree filtered to build manifests
    licenseFile,      \* sequence of length <= 1: the root license file, if any
    allDependencies,  \* the Map, as its entries in insertion order
    toolchainInfo,
    rootLicenseInfo,
    scanI,            \* the loop variable i of the batch loop
    result,           \* the returned InitialDiscoveryResult, when done
    failure,          \* what the run threw, when failed
    calls,            \* log of the awaited operations of this run: file fetches and extraction calls
    lastAdded,        \* argument of the latest addDependencies call
    existingDeps,     \* existingDeps argument of the latest analyzeSourceCodeBatch call
    manifestParsed,   \* "none" | "ok" | "null" | "unparsable": how the manifest answer parsed
    raised,           \* the errors the getFileContent calls of the latest fetch step threw
    \* ---- throttledFetch and its callers (githubService.ts) ----
    clock,            \* Date.now(), in ms
    lastRequestTime,  \* the module-level watermark
    fpc,              \* per caller: "idle" | "sleeping" | "fetching"
    wakeAt,           \* per caller: when its delay() timer is due
    outcome,          \* per caller: how its latest call ended
    issued,           \* times of the two most recent requests, latest last
    \* ---- the dependency tree of App.tsx ----
    heap,             \* the objects (arrays and nodes) allocated so far, by address
    dependencyTree,   \* address of the array held by the dependencyTree state
    isLoading,        \* the App-level isLoading state
    error,            \* the App-level error state
    rootAnalysis,     \* the App-level rootAnalysis state
    ops,              \* handlers suspended at their await, with what they captured
    crashed,          \* a state updater threw
    opCount,          \* handler steps taken so far
    lastUpdate,       \* the latest updateNodeByPath call: arguments and outcome
    \* ---- one analyzeDependency call (geminiService.ts) ----
    apc,              \* "idle" | "awaiting" | "returned" | "threw"
    aargs,            \* dependencyName, dependencyUrl, compilationDate of the call
    aanswer,          \* what generateContent answered
    aresult,          \* the RiskAssessment returned
    acalls,           \* generateContent calls issued by the call
    \* ---- one response handled by throttledFetch (githubService.ts) ----
    cin,              \* the url requested, the response, and Date.now() when it is handled
    cout              \* what throttledFetch returned or threw for it

dvars == <<phase, fileTree, sourceFilePaths, manifestPaths, licenseFile,
           allDependencies, toolchainInfo, rootLicenseInfo, scanI, result,
           failure, calls, lastAdded, existingDeps, manifestParsed, raised>>

fvars == <<clock, lastRequestTime, fpc, wakeAt, outcome, issued>>

tvars == <<heap, dependencyTree, isLoading, error, rootAnalysis, ops, crashed,
           opCount, lastUpdate>>

avars == <<apc, aargs, aanswer, aresult, acalls>>

cvars == <<cin, cout>>

vars == <<dvars, fvars, tvars, avars, cvars>>

-----------------------------------------------------------------------------
(* Bounds of the model *)

MaxSourceFiles == 31   \* source files in the file tree: up to three batches
MaxManifests == 1      \* build manifests in the file tree
MaxReport == 2         \* dependencies reported by one extraction answer
NumCallers == 2        \* concurrent callers of throttledFetch
MaxClock == 1800       \* the clock stops here
MaxOps == 5            \* handler steps (starts, completions, toggles) in one behaviour
MaxDeps == 2           \* dependencies one discovery returns to App.tsx
MaxFindings == 1       \* CWE findings in one assessment answer
ScenarioSources == 3   \* source files of the repository of the end-to-end scenario
MaxLongOps == 8        \* handler steps in one behaviour of the discovery handlers alone
MaxStarts == 3         \* handlers started in one behaviour in which every handler may finish

-----------------------------------------------------------------------------
(* Strings *)

LowerChar(c) ==
    IF c = "A" THEN "a" ELSE IF c = "B" THEN "b" ELSE c

\* String.prototype.toLowerCase
toLowerCase(s) == [k \in DOMAIN s |-> LowerChar(s[k])]

RECURSIVE TrimStart(_)
TrimStart(s) ==
    IF s # <<>> /\ Head(s) = " " THEN TrimStart(Tail(s)) ELSE s

RECURSIVE TrimEnd(_)
TrimEnd(s) ==
    IF s # <<>> /\ s[Len(s)] = " " THEN TrimEnd(SubSeq(s, 1, Len(s) - 1)) ELSE s

\* String.prototype.trim
trim(s) == TrimEnd(TrimStart(s))

-----------------------------------------------------------------------------
(* The GitHub fetcher's failure classification and getFileContent *)

GoodResponse == [status |-> 200, remaining |-> "59"]

\* HTTP answers of api.github.com: status and X-RateLimit-Remaining
HttpResponses ==
    { GoodResponse,
      [status |-> 403, remaining |-> "0"],
      [status |-> 403, remaining |-> "59"],
      [status |-> 404, remaining |-> "59"],
      [status |-> 500, remaining |-> "59"] }

\* throttledFetch, lines 30-43: "ok" for a 2xx answer, otherwise the error thrown
throttledFetchOutcome(resp) ==
    IF resp.status >= 200 /\ resp.status <= 299 THEN "ok"
    ELSE IF resp.status = 403 /\ resp.remaining = "0" THEN "RateLimited"
    ELSE IF resp.status = 404 THEN "NotFound"
    ELSE "RequestFailed"

GoodFile ==
    [http |-> GoodResponse, messageNotFound |-> FALSE, encoding |-> "base64",
     hasGitUrl |-> TRUE, hasContent |-> TRUE,
     blobHttp |-> GoodResponse, blobEncoding |-> "base64", blobHasContent |-> TRUE]

\* What the contents API (and the blob API behind it) can answer for one file
FileResponses ==
    { GoodFile,
      [GoodFile EXCEPT !.encoding = "none"],
      [GoodFile EXCEPT !.http = [status |-> 403, remaining |-> "0"]],
      [GoodFile EXCEPT !.http = [status |-> 404, remaining |-> "59"]],
      [GoodFile EXCEPT !.http = [status |-> 500, remaining |-> "59"]],
      [GoodFile EXCEPT !.messageNotFound = TRUE],
      [GoodFile EXCEPT !.encoding = "utf-8"],
      [GoodFile EXCEPT !.hasContent = FALSE],
      [GoodFile EXCEPT !.encoding = "none", !.hasGitUrl = FALSE],
      [GoodFile EXCEPT !.encoding = "none", !.blobHttp = [status |-> 403, remaining |-> "0"]],
      [GoodFile EXCEPT !.encoding = "none", !.blobEncoding = "utf-8"],
      [GoodFile EXCEPT !.encoding = "none", !.blobHasContent = FALSE] }

\* getFileContent: "ok" when the decoded content is returned, otherwise the error thrown
getFileContent(r) ==
    IF throttledFetchOutcome(r.http) # "ok" THEN throttledFetchOutcome(r.http)
    ELSE IF r.messageNotFound THEN "FileNotFound"
    ELSE IF r.encoding = "none" THEN
        IF ~r.hasGitUrl THEN "NoBlobUrl"
        ELSE IF throttledFetchOutcome(r.blobHttp) # "ok" THEN throttledFetchOutcome(r.blobHttp)
        ELSE IF r.blobEncoding # "base64" \/ ~r.blobHasContent THEN "BlobDecodeFailed"
        ELSE "ok"
    ELSE IF r.encoding # "base64" THEN "UnsupportedEncoding"
    ELSE IF ~r.hasContent THEN "EmptyContent"
    ELSE "ok"

\* The fetcher's fatal class of the specification: rate limit and not found
FetcherFatal == {"RateLimited", "NotFound"}

-----------------------------------------------------------------------------
(* The file tree and its partition (discoverDependencies, lines 149-156) *)

MakePaths(kind, n) == [k \in 1..n |-> [kind |-> kind, n |-> k]]

\* The blobs of a repository: manifests, sources, a license, a readme
MakeTree(nMan, nSrc, lic) ==
    MakePaths("manifest", nMan) \o MakePaths("source", nSrc)
        \o (IF lic THEN MakePaths("license", 1) ELSE <<>>) \o MakePaths("other", 1)

IsSourcePath(p) == p.kind = "source"      \* extension h, hpp, c, cpp or ino
IsManifestPath(p) == p.kind = "manifest"  \* platformio.ini, library.json, makefile, cmakelists.txt
IsLicensePath(p) == p.kind = "license"    \* path starts with license

\* fileTree.find(...) of line 156, as a sequence of length <= 1
FindLicense(tree) ==
    LET hits == SelectSeq(tree, IsLicensePath)
    IN IF hits = <<>> THEN <<>> ELSE <<Head(hits)>>

-----------------------------------------------------------------------------
(* Answers of the reasoning service and parseGeminiJson *)

\* {name, url} objects an extraction may report
DepPool ==
    { [name |-> <<"a">>, url |-> "u1"],
      [name |-> <<"A">>, url |-> "u2"],
      [name |-> <<" ", "a">>, url |-> "u1"],
      [name |-> <<>>, url |-> "u1"],
      [name |-> <<"b">>, url |-> "u1"] }

DepLists == UNION { [1..n -> DepPool] : n \in 0..MaxReport }

JsonNull == [k |-> "null"]

\* A parsed JSON object; hasDeps = FALSE models an object without 'dependencies'
JsonObject(tc, deps) ==
    [k |-> "object", toolchainInfo |-> tc, hasDeps |-> TRUE, dependencies |-> deps]

ManifestValues ==
    { JsonObject("PlatformIO", deps) : deps \in DepLists }
        \cup { JsonNull, [JsonObject("PlatformIO", <<>>) EXCEPT !.hasDeps = FALSE] }

SourceValues ==
    { JsonObject("", deps) : deps \in DepLists }
        \cup { JsonNull, [JsonObject("", <<>>) EXCEPT !.hasDeps = FALSE] }

LicenseValues == { [k |-> "object", spdxId |-> "MIT"], JsonNull }

\* A response text is a sequence of tokens: the opening fence, white space,
\* the closing fence, one well-formed JSON value, or other characters.
TFence == [t |-> "fence-json"]
TClose == [t |-> "fence"]
TSpace == [t |-> " "]
TJunk == [t |-> "junk"]
TJson(v) == [t |-> "json", v |-> v]

PlainText(v) == <<TJson(v)>>
FencedText(v) == <<TFence, TSpace, TJson(v), TSpace, TClose>>

UnparsableTexts ==
    { <<TJunk>>, <<>>, <<TFence, TSpace, TJunk, TClose>>,
      <<TJunk, TFence, TJson(JsonNull), TClose>>,
      <<TClose, TJson(JsonNull), TClose>> }

TextsOf(values) ==
    { PlainText(v) : v \in values } \cup { FencedText(v) : v \in values }
        \cup UnparsableTexts

RECURSIVE DropLeadingSpace(_)
DropLeadingSpace(text) ==
    IF text # <<>> /\ Head(text) = TSpace THEN DropLeadingSpace(Tail(text)) ELSE text

RECURSIVE DropTrailingSpace(_)
DropTrailingSpace(text) ==
    IF text # <<>> /\ text[Len(text)] = TSpace
    THEN DropTrailingSpace(SubSeq(text, 1, Len(text) - 1))
    ELSE text

\* The two replace calls of parseGeminiJson: drop an opening json fence with the
\* white space after it, then a closing fence with the white space before it
cleanedText(text) ==
    LET a == IF text # <<>> /\ Head(text) = TFence
             THEN DropLeadingSpace(Tail(text)) ELSE text
    IN IF a # <<>> /\ a[Len(a)] = TClose
       THEN DropTrailingSpace(SubSeq(a, 1, Len(a) - 1)) ELSE a

\* JSON.parse: white space around exactly one value, anything else throws
JsonParses(text) ==
    LET core == DropTrailingSpace(DropLeadingSpace(text))
    IN Len(core) = 1 /\ core[1].t = "json"

JsonParse(text) == DropTrailingSpace(DropLeadingSpace(text))[1].v

\* parseGeminiJson: the parsed value, or null when JSON.parse throws
parseGeminiJson(text) ==
    IF JsonParses(cleanedText(text)) THEN JsonParse(cleanedText(text)) ELSE JsonNull

\* ai.models.generateContent either rejects or answers with a text
GenerateOutcomes(values) ==
    { [threw |-> TRUE, text |-> <<>>] }
        \cup { [threw |-> FALSE, text |-> t] : t \in TextsOf(values) }

-----------------------------------------------------------------------------
(* The registry of one run: allDependencies and addDependencies *)

BATCH_SIZE == 15

\* Numbers of source files tried: those next to a batch boundary
SourceCounts ==
    { n \in 0..MaxSourceFiles : n % BATCH_SIZE \in {0, 1, BATCH_SIZE - 1} }

NoFailure == [kind |-> "none", at |-> "none"]
NoResult == [returned |-> FALSE]

Has(reg, key) == \E k \in DOMAIN reg : reg[k].key = key

MapGet(reg, key) == reg[CHOOSE k \in DOMAIN reg : reg[k].key = key].dep

\* A Map whose set puts a new key in front of the entries it holds
MapSetFront(reg, key, dep) ==
    IF Has(reg, key)
    THEN [k \in DOMAIN reg |-> IF reg[k].key = key THEN [key |-> key, dep |-> dep] ELSE reg[k]]
    ELSE <<[key |-> key, dep |-> dep]>> \o reg

\* Map.prototype.set: a new key is appended, an existing key keeps its position
MapSet(reg, key, dep) ==
    IF Has(reg, key)
    THEN [k \in DOMAIN reg |-> IF reg[k].key = key THEN [key |-> key, dep |-> dep] ELSE reg[k]]
    ELSE Append(reg, [key |-> key, dep |-> dep])

\* The body of the forEach of addDependencies written without its guard
addOneOverwrite(reg, dep) ==
    IF dep.name # <<>> THEN MapSet(reg, toLowerCase(dep.name), dep) ELSE reg

\* The body of the forEach of addDependencies without the test of dep.name
addOneKeepsEmpty(reg, dep) ==
    LET key == toLowerCase(dep.name)
    IN IF ~Has(reg, key) THEN MapSet(reg, key, dep) ELSE reg

\* The body of the forEach of addDependencies (lines 139-142)
addOne(reg, dep) ==
    LET key == toLowerCase(dep.name)
    IN IF ~Has(reg, key) /\ dep.name # <<>> THEN MapSet(reg, key, dep) ELSE reg

RECURSIVE addDependencies(_, _)
addDependencies(reg, deps) ==
    IF deps = <<>> THEN reg
    ELSE addDependencies(addOne(reg, Head(deps)), Tail(deps))

\* d => ({...d, discoverySource: source}) mapped over a reported list
WithSource(deps, source) ==
    [k \in DOMAIN deps |->
        [name |-> deps[k].name, url |-> deps[k].url, discoverySource |-> source]]

\* Array.from(allDependencies.values())
MapValues(reg) == [k \in DOMAIN reg |-> reg[k].dep]

\* [...allDependencies.keys()]
MapKeys(reg) == [k \in DOMAIN reg |-> reg[k].key]

\* The names as reported, in place of the keys
existingDepsByName(reg) == [k \in DOMAIN reg |-> reg[k].dep.name]

\* [...allDependencies.keys()], the second argument of analyzeSourceCodeBatch (line 219)
existingDepsOf(reg) == MapKeys(reg)

Min(a, b) == IF a < b THEN a ELSE b

IsPrefix(p, q) == Len(p) <= Len(q) /\ SubSeq(q, 1, Len(p)) = p

\* sourceFilePaths.slice(i, i + BATCH_SIZE), with a batch one file short
batchPathsShort(paths, i) ==
    SubSeq(paths, i + 1, Min(i + BATCH_SIZE - 1, Len(paths)))

\* sourceFilePaths.slice(i, i + BATCH_SIZE)
batchPaths(paths, i) == SubSeq(paths, i + 1, Min(i + BATCH_SIZE, Len(paths)))

\* analyzeSourceCodeBatch: the dependencies one batch contributes
analyzeSourceCodeBatch(fileContents, out) ==
    IF fileContents = <<>> THEN <<>>
    ELSE IF out.threw THEN <<>>
    ELSE LET res == parseGeminiJson(out.text)
         IN IF res.k = "null" THEN <<>>
            ELSE IF ~res.hasDeps THEN <<>>
            ELSE WithSource(res.dependencies, "Source Code Scan")

-----------------------------------------------------------------------------
(* discoverDependencies, one step per await *)

DefaultToolchain == "Not determined."

AfterScan(lic) == IF lic # <<>> THEN "licenseFetch" ELSE "finalize"

AfterManifest(src, lic) == IF Len(src) > 0 THEN "scanFetch" ELSE AfterScan(lic)

\* The source scan placed before the manifest phase, which is then never run
AfterTreeScanFirst(man, src, lic) == AfterManifest(src, lic)

AfterTree(man, src, lic) ==
    IF Len(man) > 0 THEN "manifestFetch" ELSE AfterManifest(src, lic)

\* A catch that swallows the error and goes on to return what the run holds
ThrowSwallowed(kind) ==
    /\ phase' = "finalize"
    /\ failure' = [kind |-> kind, at |-> phase]

\* The catch of lines 252-259 rethrows whatever the try block threw
Throw(kind) ==
    /\ phase' = "failed"
    /\ failure' = [kind |-> kind, at |-> phase]

\* toolchainInfo after the manifest answer, assigned also for a null result
manifestToolchainUnguarded(cur, res) ==
    IF res.k # "null" THEN res.toolchainInfo ELSE ""

\* toolchainInfo after the manifest answer (lines 199-200)
manifestToolchain(cur, res) ==
    IF res.k # "null" THEN res.toolchainInfo ELSE cur

\* Lines 130-149: the locals of a new run, up to the await of getRepoFileTree
StartRun ==
    /\ phase' = "tree"
    /\ fileTree' = <<>>
    /\ sourceFilePaths' = <<>>
    /\ manifestPaths' = <<>>
    /\ licenseFile' = <<>>
    /\ allDependencies' = <<>>
    /\ toolchainInfo' = DefaultToolchain
    /\ rootLicenseInfo' = JsonNull
    /\ scanI' = 0
    /\ result' = NoResult
    /\ failure' = NoFailure
    /\ calls' = <<>>
    /\ lastAdded' = <<>>
    /\ existingDeps' = <<>>
    /\ manifestParsed' = "none"
    /\ raised' = {}

\* Lines 130-135: a new run with its own registry
discoverDependencies ==
    /\ phase \in {"idle", "done", "failed"}
    /\ StartRun
    /\ UNCHANGED <<fvars, tvars, avars, cvars>>

\* What getRepoFileTree can throw: the url names no repository (line 59), one
\* of its two requests is refused (lines 63, 68), the body holds no tree (line 75)
TreeFailures ==
    {"InvalidUrl", "TypeError"}
        \cup ({ throttledFetchOutcome(r) : r \in HttpResponses } \ {"ok"})

\* Phase 1 fails: getRepoFileTree throws
TreeFails ==
    /\ phase = "tree"
    /\ \E kind \in TreeFailures : Throw(kind)
    /\ lastAdded' = <<>>
    /\ existingDeps' = <<>>
    /\ UNCHANGED raised
    /\ UNCHANGED <<fvars, tvars, avars, cvars>>
    /\ UNCHANGED <<fileTree, sourceFilePaths, manifestPaths, licenseFile,
                   allDependencies, toolchainInfo, rootLicenseInfo, scanI, result,
                   calls, manifestParsed>>

\* Phase 1 (lines 149-156) for a given repository: the file tree and its
\* three partitions
TreeListedWith(nMan, nSrc, lic) ==
    /\ phase = "tree"
    /\ LET tree == MakeTree(nMan, nSrc, lic)
           src == SelectSeq(tree, IsSourcePath)
           man == SelectSeq(tree, IsManifestPath)
           licf == FindLicense(tree)
       IN /\ fileTree' = tree
          /\ sourceFilePaths' = src
          /\ manifestPaths' = man
          /\ licenseFile' = licf
          /\ phase' = AfterTree(man, src, licf)
    /\ lastAdded' = <<>>
    /\ existingDeps' = <<>>
    /\ UNCHANGED raised
    /\ UNCHANGED <<fvars, tvars, avars, cvars>>
    /\ UNCHANGED <<allDependencies, toolchainInfo, rootLicenseInfo, scanI, result,
                   failure, calls, manifestParsed>>

\* Phase 1 (lines 149-156)
TreeListed ==
    \E nMan \in 0..MaxManifests, nSrc \in SourceCounts, lic \in BOOLEAN :
        TreeListedWith(nMan, nSrc, lic)

\* What another file of the same Promise.all may answer meanwhile
SiblingResponses ==
    { GoodFile, [GoodFile EXCEPT !.http = [status |-> 403, remaining |-> "0"]] }

\* How one getFileContent call can end
FileOutcomes == { getFileContent(r) : r \in FileResponses }

\* How the call for another file of the same Promise.all can end; a step
\* with one file has no other call
SiblingOutcomes(paths) ==
    IF Len(paths) < 2 THEN {"ok"} ELSE { getFileContent(r) : r \in SiblingResponses }

\* await Promise.all(paths.map(getFileContent)), lines 161-166 and 212-217, and
\* the single getFileContent of line 227: o is the outcome of the call that
\* settles the await (the first to reject, if any rejects), o2 the outcome of
\* the call for some other file of the step
FetchAll(paths, next) ==
    \E o \in FileOutcomes, o2 \in SiblingOutcomes(paths) :
        /\ o = "ok" => o2 = "ok"
        /\ raised' = {o, o2} \ {"ok"}
        /\ IF o = "ok"
           THEN phase' = next /\ UNCHANGED failure
           ELSE Throw(o)

\* Phase 2 (lines 161-166): Promise.all over the manifests
ManifestFetch ==
    /\ phase = "manifestFetch"
    /\ FetchAll(manifestPaths, "manifestExtract")
    /\ calls' = Append(calls, [kind |-> "fetch", files |-> manifestPaths])
    /\ lastAdded' = <<>>
    /\ existingDeps' = <<>>
    /\ UNCHANGED <<fvars, tvars, avars, cvars>>
    /\ UNCHANGED <<fileTree, sourceFilePaths, manifestPaths, licenseFile,
                   allDependencies, toolchainInfo, rootLicenseInfo, scanI, result,
                   manifestParsed>>

\* Phase 2 (lines 192-202) for a given outcome of generateContent
ManifestExtractWith(out) ==
    /\ phase = "manifestExtract"
    /\ calls' = Append(calls, [kind |-> "manifest", files |-> manifestPaths])
    /\ IF out.threw
       THEN /\ Throw("GenerateFailed")
            /\ UNCHANGED <<allDependencies, toolchainInfo, lastAdded, manifestParsed>>
       ELSE LET res == parseGeminiJson(out.text)
            IN /\ toolchainInfo' = manifestToolchain(toolchainInfo, res)
               /\ manifestParsed' = IF ~JsonParses(cleanedText(out.text)) THEN "unparsable"
                                    ELSE IF res.k = "null" THEN "null" ELSE "ok"
               /\ IF res.k = "null"
                  THEN /\ phase' = AfterManifest(sourceFilePaths, licenseFile)
                       /\ UNCHANGED <<allDependencies, lastAdded, failure>>
                  ELSE IF ~res.hasDeps
                  THEN /\ Throw("TypeError")
                       /\ UNCHANGED <<allDependencies, lastAdded>>
                  ELSE /\ lastAdded' = WithSource(res.dependencies, "Build Manifest")
                       /\ allDependencies' = addDependencies(allDependencies, lastAdded')
                       /\ phase' = AfterManifest(sourceFilePaths, licenseFile)
                       /\ UNCHANGED failure
    /\ existingDeps' = <<>>
    /\ UNCHANGED raised
    /\ UNCHANGED <<fvars, tvars, avars, cvars>>
    /\ UNCHANGED <<fileTree, sourceFilePaths, manifestPaths, licenseFile,
                   rootLicenseInfo, scanI, result>>

\* Phase 2 (lines 192-202): the manifest extraction call and its merge
ManifestExtract == \E out \in GenerateOutcomes(ManifestValues) : ManifestExtractWith(out)

\* Phase 3 (lines 209-217): Promise.all over the files of the batch at scanI
ScanFetch ==
    /\ phase = "scanFetch"
    /\ FetchAll(batchPaths(sourceFilePaths, scanI), "scanExtract")
    /\ calls' = Append(calls, [kind |-> "fetch", files |-> batchPaths(sourceFilePaths, scanI)])
    /\ lastAdded' = <<>>
    /\ existingDeps' = <<>>
    /\ UNCHANGED <<fvars, tvars, avars, cvars>>
    /\ UNCHANGED <<fileTree, sourceFilePaths, manifestPaths, licenseFile,
                   allDependencies, toolchainInfo, rootLicenseInfo, scanI, result,
                   manifestParsed>>

\* Phase 3 with the extraction call issued again after an unparsable answer
ScanExtractWithRetry(out) ==
    /\ phase = "scanExtract"
    /\ LET batch == batchPaths(sourceFilePaths, scanI)
           call == [kind |-> "source", files |-> batch]
       IN /\ calls' = IF ~out.threw /\ ~JsonParses(cleanedText(out.text))
                       THEN calls \o <<call, call>>
                       ELSE Append(calls, call)
          /\ lastAdded' = analyzeSourceCodeBatch(batch, out)
          /\ allDependencies' = addDependencies(allDependencies, lastAdded')
    /\ scanI' = scanI + BATCH_SIZE
    /\ phase' = IF scanI' < Len(sourceFilePaths) THEN "scanFetch" ELSE AfterScan(licenseFile)
    /\ UNCHANGED raised
    /\ UNCHANGED <<fvars, tvars, avars, cvars>>
    /\ UNCHANGED <<fileTree, sourceFilePaths, manifestPaths, licenseFile,
                   toolchainInfo, rootLicenseInfo, result, failure, manifestParsed>>

\* Phase 3 (lines 219-220 and the loop step) for a given outcome of generateContent
ScanExtractWith(out) ==
    /\ phase = "scanExtract"
    /\ LET batch == batchPaths(sourceFilePaths, scanI)
       IN /\ calls' = Append(calls, [kind |-> "source", files |-> batch])
          /\ lastAdded' = analyzeSourceCodeBatch(batch, out)
          /\ allDependencies' = addDependencies(allDependencies, lastAdded')
    /\ scanI' = scanI + BATCH_SIZE
    /\ phase' = IF scanI' < Len(sourceFilePaths) THEN "scanFetch" ELSE AfterScan(licenseFile)
    /\ UNCHANGED raised
    /\ UNCHANGED <<fvars, tvars, avars, cvars>>
    /\ UNCHANGED <<fileTree, sourceFilePaths, manifestPaths, licenseFile,
                   toolchainInfo, rootLicenseInfo, result, failure, manifestParsed>>

\* Phase 3 (lines 219-220 and the loop step): one extraction call per batch
\* What generateContent can do when asked about a batch of source files
SourceOutcomes == GenerateOutcomes(SourceValues)

ScanExtract ==
    /\ \E out \in SourceOutcomes : ScanExtractWith(out)
    /\ existingDeps' = <<>>

\* Phase 3 (lines 219-220), observing the second argument of analyzeSourceCodeBatch
ScanExtractObserved ==
    /\ \E out \in SourceOutcomes : ScanExtractWith(out)
    /\ existingDeps' = existingDepsOf(allDependencies)

\* Phase 4 (line 227): the license file's content
LicenseFetch ==
    /\ phase = "licenseFetch"
    /\ FetchAll(licenseFile, "licenseExtract")
    /\ calls' = Append(calls, [kind |-> "fetch", files |-> licenseFile])
    /\ lastAdded' = <<>>
    /\ existingDeps' = <<>>
    /\ UNCHANGED <<fvars, tvars, avars, cvars>>
    /\ UNCHANGED <<fileTree, sourceFilePaths, manifestPaths, licenseFile,
                   allDependencies, toolchainInfo, rootLicenseInfo, scanI, result,
                   manifestParsed>>

\* Phase 4 (lines 236-241): the license extraction call
LicenseExtract ==
    /\ phase = "licenseExtract"
    /\ calls' = Append(calls, [kind |-> "license", files |-> licenseFile])
    /\ \E out \in GenerateOutcomes(LicenseValues) :
          IF out.threw
          THEN Throw("GenerateFailed") /\ UNCHANGED rootLicenseInfo
          ELSE /\ rootLicenseInfo' = parseGeminiJson(out.text)
               /\ phase' = "finalize"
               /\ UNCHANGED failure
    /\ lastAdded' = <<>>
    /\ existingDeps' = <<>>
    /\ UNCHANGED raised
    /\ UNCHANGED <<fvars, tvars, avars, cvars>>
    /\ UNCHANGED <<fileTree, sourceFilePaths, manifestPaths, licenseFile,
                   allDependencies, toolchainInfo, scanI, result,
                   manifestParsed>>

\* Lines 244-250: the result is returned
Finalize ==
    /\ phase = "finalize"
    /\ phase' = "done"
    /\ result' = [returned |-> TRUE,
                  dependencies |-> MapValues(allDependencies),
                  toolchainInfo |-> toolchainInfo,
                  rootLicenseInfo |-> rootLicenseInfo]
    /\ lastAdded' = <<>>
    /\ existingDeps' = <<>>
    /\ UNCHANGED raised
    /\ UNCHANGED <<fvars, tvars, avars, cvars>>
    /\ UNCHANGED <<fileTree, sourceFilePaths, manifestPaths, licenseFile,
                   allDependencies, toolchainInfo, rootLicenseInfo, scanI,
                   failure, calls, manifestParsed>>

InitDiscover ==
    /\ phase = "idle"
    /\ fileTree = <<>>
    /\ sourceFilePaths = <<>>
    /\ manifestPaths = <<>>
    /\ licenseFile = <<>>
    /\ allDependencies = <<>>
    /\ toolchainInfo = DefaultToolchain
    /\ rootLicenseInfo = JsonNull
    /\ scanI = 0
    /\ result = NoResult
    /\ failure = NoFailure
    /\ calls = <<>>
    /\ lastAdded = <<>>
    /\ existingDeps = <<>>
    /\ manifestParsed = "none"
    /\ raised = {}

-----------------------------------------------------------------------------
(* Properties of the discovery run *)

\* The identity key of the specification: the name trimmed and lower-cased
IdentityKey(name) == trim(toLowerCase(name))

\* The first record of a list that has the given registry key
FirstWithKey(deps, key) ==
    deps[CHOOSE j \in DOMAIN deps :
            /\ toLowerCase(deps[j].name) = key
            /\ \A h \in 1..(j - 1) : toLowerCase(deps[h].name) # key]

SourceCalls == SelectSeq(calls, LAMBDA c : c.kind = "source")

CeilDiv(n, d) == (n + d - 1) \div d

\* Files [15(k-1), min(15k, N)) of the source file list, as the k-th batch
ExpectedBatch(k) ==
    LET lo == BATCH_SIZE * (k - 1)
        hi == Min(BATCH_SIZE * k, Len(sourceFilePaths))
    IN [j \in 1..(hi - lo) |-> sourceFilePaths[lo + j]]

RECURSIVE Flatten(_)
Flatten(ss) == IF ss = <<>> THEN <<>> ELSE Head(ss).files \o Flatten(Tail(ss))

ScanOver ==
    \/ phase \in {"licenseFetch", "licenseExtract", "finalize", "done"}
    \/ phase = "failed" /\ failure.at \in {"licenseFetch", "licenseExtract"}

\* C2: the returned dependency list holds no two records whose names are
\* equal after trimming surrounding white space and lower-casing.
C2_OneRecordPerIdentity ==
    result.returned =>
        \A a, b \in DOMAIN result.dependencies :
            a # b => IdentityKey(result.dependencies[a].name)
                        # IdentityKey(result.dependencies[b].name)

\* C3: addDependencies is first-wins and idempotent. Within a run every
\* retained entry stays where it is with the record it had; an entry that
\* appears holds the first record of the added list with its key; adding the
\* same list once more leaves the registry unchanged.
C3_FirstWinsIdempotent ==
    [][phase' # "tree" =>
          /\ \A k \in DOMAIN allDependencies :
                k \in DOMAIN allDependencies' /\ allDependencies'[k] = allDependencies[k]
          /\ \A k \in DOMAIN allDependencies' \ DOMAIN allDependencies :
                allDependencies'[k].dep = FirstWithKey(lastAdded', allDependencies'[k].key)
          /\ addDependencies(allDependencies', lastAdded') = allDependencies'
      ]_vars

\* C3 witness: a source batch reported a key the manifest phase had already
\* introduced, with another url, and the manifest record was kept.
C3_Witness ==
    \E j \in DOMAIN lastAdded :
        /\ lastAdded[j].discoverySource = "Source Code Scan"
        /\ Has(allDependencies, toLowerCase(lastAdded[j].name))
        /\ MapGet(allDependencies, toLowerCase(lastAdded[j].name)).discoverySource
              = "Build Manifest"
        /\ MapGet(allDependencies, toLowerCase(lastAdded[j].name)).url # lastAdded[j].url

\* C8: the k-th source extraction call covers files [15(k-1), min(15k, N)) in
\* list order; the batches are disjoint and, once the scan is over, there are
\* exactly ceil(N/15) of them and together they are the source file list.
C8_Batching ==
    /\ \A k \in DOMAIN SourceCalls : SourceCalls[k].files = ExpectedBatch(k)
    /\ Cardinality({ Flatten(SourceCalls)[x] : x \in DOMAIN Flatten(SourceCalls) })
          = Len(Flatten(SourceCalls))
    /\ Len(SourceCalls) <= CeilDiv(Len(sourceFilePaths), BATCH_SIZE)
    /\ ScanOver =>
          /\ Len(SourceCalls) = CeilDiv(Len(sourceFilePaths), BATCH_SIZE)
          /\ Flatten(SourceCalls) = sourceFilePaths

\* C8 witness: a finished run whose scan took several batches, the last one partial
C8_Witness ==
    /\ phase = "done"
    /\ Len(SourceCalls) >= 2
    /\ Len(SourceCalls[Len(SourceCalls)].files) < BATCH_SIZE

\* C9: a failure while processing a source batch that is neither a rate
\* limit nor a not-found failure never ends the run.
C9_BatchFailureDegrades ==
    (phase = "failed" /\ failure.at \in {"scanFetch", "scanExtract"})
        => failure.kind \in FetcherFatal

\* C10: after a manifest answer that cannot be parsed, toolchainInfo keeps its
\* default, the registry holds no manifest record, the run does not fail in
\* phase 2, and a run that returns has made the source and license calls.
C10_UnparsableManifestDegrades ==
    manifestParsed = "unparsable" =>
        /\ toolchainInfo = DefaultToolchain
        /\ \A k \in DOMAIN allDependencies :
              allDependencies[k].dep.discoverySource # "Build Manifest"
        /\ phase \notin {"manifestFetch", "manifestExtract"}
        /\ phase = "failed" =>
              failure.at \in {"scanFetch", "scanExtract", "licenseFetch", "licenseExtract"}
        /\ phase = "done" =>
              /\ result.returned
              /\ result.toolchainInfo = DefaultToolchain
              /\ Len(SourceCalls) = CeilDiv(Len(sourceFilePaths), BATCH_SIZE)
              /\ licenseFile # <<>> => \E c \in DOMAIN calls : calls[c].kind = "license"

\* C10 witness: a returned run whose manifest answer was unparsable and whose
\* source scan and license phases both ran.
C10_Witness ==
    /\ phase = "done"
    /\ manifestParsed = "unparsable"
    /\ Len(SourceCalls) >= 1
    /\ \E c \in DOMAIN calls : calls[c].kind = "license"
    /\ \E k \in DOMAIN result.dependencies :
          result.dependencies[k].discoverySource = "Source Code Scan"

\* The operations a run awaits after phase 1, in program order: the manifest
\* fetch and extraction, per batch its fetch and its extraction, the license
\* fetch and extraction
ManifestPart ==
    IF manifestPaths # <<>>
    THEN <<[kind |-> "fetch", files |-> manifestPaths],
           [kind |-> "manifest", files |-> manifestPaths]>>
    ELSE <<>>

SourcePart ==
    [j \in 1..(2 * CeilDiv(Len(sourceFilePaths), BATCH_SIZE)) |->
        IF j % 2 = 1 THEN [kind |-> "fetch", files |-> ExpectedBatch((j + 1) \div 2)]
        ELSE [kind |-> "source", files |-> ExpectedBatch(j \div 2)]]

LicensePart ==
    IF licenseFile # <<>>
    THEN <<[kind |-> "fetch", files |-> licenseFile],
           [kind |-> "license", files |-> licenseFile]>>
    ELSE <<>>

ExpectedSchedule == (ManifestPart \o SourcePart) \o LicensePart

\* How many operations have settled when the run is suspended in a phase
SettledAt(ph) ==
    CASE ph \in {"idle", "tree", "manifestFetch"} -> 0
      [] ph = "manifestExtract" -> 1
      [] ph = "scanFetch" -> Len(ManifestPart) + 2 * (scanI \div BATCH_SIZE)
      [] ph = "scanExtract" -> Len(ManifestPart) + 2 * (scanI \div BATCH_SIZE) + 1
      [] ph = "licenseFetch" -> Len(ManifestPart) + Len(SourcePart)
      [] ph = "licenseExtract" -> Len(ManifestPart) + Len(SourcePart) + 1
      [] ph \in {"finalize", "done"} -> Len(ExpectedSchedule)

\* C12: the operations of a run settle in the order manifest phase, source
\* batches in list order with each batch's fetch and extraction over before the
\* next batch's fetch, license phase; all of them after the tree listing. A
\* run suspended in batch i has every earlier batch fully behind it.
C12_PhaseAndBatchOrder ==
    /\ IsPrefix(calls, ExpectedSchedule)
    /\ phase \in {"idle", "tree"} => calls = <<>>
    /\ phase # "failed" => Len(calls) = SettledAt(phase)
    /\ phase = "failed" => Len(calls) = SettledAt(failure.at) + (IF failure.at = "tree" THEN 0 ELSE 1)

\* C12 witness: a returned run that went through all four phases and more
\* than one batch
C12_Witness ==
    /\ phase = "done"
    /\ manifestPaths # <<>>
    /\ licenseFile # <<>>
    /\ Len(sourceFilePaths) > 2 * BATCH_SIZE
    /\ calls = ExpectedSchedule

\* The records of a reported list that are the first report of their key,
\* given the keys seen before; records with an empty name are never kept
RECURSIVE FirstReports(_, _)
FirstReports(seen, list) ==
    IF list = <<>> THEN <<>>
    ELSE LET d == Head(list)
             key == toLowerCase(d.name)
         IN IF d.name = <<>> \/ key \in seen
            THEN FirstReports(seen, Tail(list))
            ELSE <<d>> \o FirstReports(seen \cup {key}, Tail(list))

KeySet(reg) == { reg[k].key : k \in DOMAIN reg }

\* C13: within a run the record list only grows at its end, by the first
\* reports of new keys in the order they were reported (manifest answer, then
\* batch after batch); a dropped duplicate changes nothing; the returned list
\* is the registry's values in that order.
C13_InsertionOrder ==
    [][phase' # "tree" =>
          /\ MapValues(allDependencies')
                = MapValues(allDependencies) \o FirstReports(KeySet(allDependencies), lastAdded')
          /\ (result'.returned /\ ~result.returned)
                => result'.dependencies = MapValues(allDependencies)
      ]_vars

\* C13 witness: a batch reported a key the manifest had introduced and then a
\* new key; the new record stands last, behind the manifest record
C13_Witness ==
    /\ Len(allDependencies) >= 2
    /\ allDependencies[1].dep.discoverySource = "Build Manifest"
    /\ Len(lastAdded) = 2
    /\ toLowerCase(lastAdded[1].name) = allDependencies[1].key
    /\ lastAdded[1].discoverySource = "Source Code Scan"
    /\ allDependencies[Len(allDependencies)].dep = lastAdded[2]

\* C14: a failure of phase 1 ends the run with that failure: nothing is
\* returned, no file content has been fetched and no extraction call made.
C14_TreeFailureIsFatal ==
    failure.at = "tree" =>
        /\ phase = "failed"
        /\ failure.kind \in TreeFailures
        /\ ~result.returned
        /\ calls = <<>>
        /\ allDependencies = <<>>

\* C14 witness: the tree request was answered with a status 500
C14_Witness ==
    /\ phase = "failed"
    /\ failure = [kind |-> "RequestFailed", at |-> "tree"]

\* C15: a failure in phase 2 or phase 4 other than a rate limit or a
\* not-found failure (undecodable content, a generic refusal, the extraction
\* call itself failing) never ends the run.
C15_ManifestLicenseFailureDegrades ==
    (phase = "failed"
        /\ failure.at \in {"manifestFetch", "manifestExtract", "licenseFetch", "licenseExtract"})
        => failure.kind \in FetcherFatal \cup {"FileNotFound"}

\* C16: when a file fetch of phases 2-4 has thrown a rate-limit or not-found
\* failure, the run has failed with such a failure thrown by a fetch of that
\* step, has returned nothing, and the failed fetch is the last operation of
\* the run: no retry, no later phase or batch.
C16_FatalFetchFailurePropagates ==
    (raised \cap FetcherFatal # {}) =>
        /\ phase = "failed"
        /\ failure.kind \in raised \cap FetcherFatal
        /\ ~result.returned
        /\ IsPrefix(calls, ExpectedSchedule)
        /\ calls[Len(calls)].kind = "fetch"

-----------------------------------------------------------------------------
(* throttledFetch under concurrent callers (githubService.ts, lines 4-44) *)

GITHUB_API_DELAY == 300

Callers == 1..NumCallers

\* Date.now() when the page is loaded: long after time 0
StartClock == 3 * GITHUB_API_DELAY

TickSteps == {100, GITHUB_API_DELAY}

\* Line 18 and line 27: the watermark is set and the request goes out
Issue(p) ==
    /\ lastRequestTime' = clock
    /\ issued' = IF Len(issued) < 2 THEN Append(issued, clock) ELSE <<issued[2], clock>>
    /\ fpc' = [fpc EXCEPT ![p] = "fetching"]

\* throttledFetch without the delay of lines 15-17
CallWithoutDelay(p) ==
    /\ fpc[p] = "idle"
    /\ Issue(p)
    /\ outcome' = [outcome EXCEPT ![p] = "none"]
    /\ UNCHANGED <<clock, wakeAt>>
    /\ UNCHANGED <<dvars, tvars, avars, cvars>>

\* Lines 12-17, and lines 18-27 when no delay is needed: everything up to the
\* first await runs without interruption
Call(p) ==
    /\ fpc[p] = "idle"
    /\ LET now == clock
           timeSinceLastRequest == now - lastRequestTime
       IN IF timeSinceLastRequest < GITHUB_API_DELAY
          THEN /\ fpc' = [fpc EXCEPT ![p] = "sleeping"]
               /\ wakeAt' = [wakeAt EXCEPT ![p] = now + (GITHUB_API_DELAY - timeSinceLastRequest)]
               /\ UNCHANGED <<lastRequestTime, issued>>
          ELSE /\ Issue(p)
               /\ UNCHANGED wakeAt
    /\ outcome' = [outcome EXCEPT ![p] = "none"]
    /\ UNCHANGED clock
    /\ UNCHANGED <<dvars, tvars, avars, cvars>>

\* The delay() timer fires; lines 18-27 run
Wake(p) ==
    /\ fpc[p] = "sleeping"
    /\ clock >= wakeAt[p]
    /\ Issue(p)
    /\ wakeAt' = [wakeAt EXCEPT ![p] = 0]
    /\ UNCHANGED <<clock, outcome>>
    /\ UNCHANGED <<dvars, tvars, avars, cvars>>

\* Lines 30-43: the response arrives and is returned or turned into an error
Respond(p) ==
    /\ fpc[p] = "fetching"
    /\ \E r \in HttpResponses : outcome' = [outcome EXCEPT ![p] = throttledFetchOutcome(r)]
    /\ fpc' = [fpc EXCEPT ![p] = "idle"]
    /\ UNCHANGED <<clock, lastRequestTime, wakeAt, issued>>
    /\ UNCHANGED <<dvars, tvars, avars, cvars>>

Tick ==
    /\ \E d \in TickSteps : clock + d <= MaxClock /\ clock' = clock + d
    /\ UNCHANGED <<lastRequestTime, fpc, wakeAt, outcome, issued>>
    /\ UNCHANGED <<dvars, tvars, avars, cvars>>

InitFetch ==
    /\ clock = StartClock
    /\ lastRequestTime = 0
    /\ fpc = [p \in Callers |-> "idle"]
    /\ wakeAt = [p \in Callers |-> 0]
    /\ outcome = [p \in Callers |-> "none"]
    /\ issued = <<>>

\* C1: of any two consecutive requests, the second is issued at least
\* GITHUB_API_DELAY after the first, also when the calls overlap.
C1_SpacingUnderConcurrency ==
    Len(issued) = 2 => issued[2] - issued[1] >= GITHUB_API_DELAY

\* A call that starts when every earlier call has returned or failed
SequentialCall(p) ==
    /\ \A q \in Callers : fpc[q] = "idle"
    /\ Call(p)

\* C24: when the calls do not overlap, a request is issued at least
\* GITHUB_API_DELAY after the request before it, a call made that long after
\* the latest request issues its request at once, and lastRequestTime never
\* decreases.
C24_SpacingWithoutOverlap ==
    [][/\ Len(issued') = 2 => issued'[2] - issued'[1] >= GITHUB_API_DELAY
       /\ \A p \in Callers :
             (fpc[p] = "idle" /\ fpc'[p] # "idle"
                /\ clock - lastRequestTime >= GITHUB_API_DELAY)
                => /\ fpc'[p] = "fetching"
                   /\ lastRequestTime' = clock
       /\ \A p \in Callers :
             (fpc[p] = "idle" /\ fpc'[p] # "idle"
                /\ clock - lastRequestTime < GITHUB_API_DELAY)
                => /\ fpc'[p] = "sleeping"
                   /\ wakeAt'[p] = lastRequestTime + GITHUB_API_DELAY
       /\ lastRequestTime' >= lastRequestTime]_vars

\* C24 witness: after an earlier call has finished, a call made less than
\* GITHUB_API_DELAY after that call's request is waiting for its timer
C24_Witness ==
    /\ Len(issued) >= 1
    /\ lastRequestTime = issued[Len(issued)]
    /\ \E p, q \in Callers :
          /\ p # q
          /\ fpc[p] = "sleeping"
          /\ wakeAt[p] = lastRequestTime + GITHUB_API_DELAY
          /\ clock > lastRequestTime /\ clock < wakeAt[p]
          /\ fpc[q] = "idle" /\ outcome[q] # "none"

-----------------------------------------------------------------------------
(* The heap of App.tsx: arrays and DependencyNode objects *)

Digits == <<"0", "1", "2", "3", "4", "5", "6", "7", "8", "9">>

DigitValue(c) == (CHOOSE d \in 1..10 : Digits[d] = c) - 1

\* String(n) for a natural number
RECURSIVE ToStr(_)
ToStr(n) == IF n < 10 THEN <<Digits[n + 1]>> ELSE ToStr(n \div 10) \o <<Digits[(n % 10) + 1]>>

\* Number(s) for a string of digits; Number("") is 0
RECURSIVE ToNumber(_)
ToNumber(s) ==
    IF s = <<>> THEN 0
    ELSE 10 * ToNumber(SubSeq(s, 1, Len(s) - 1)) + DigitValue(s[Len(s)])

\* path.split('-'), from the left, cur being the segment read so far
RECURSIVE SplitDash(_, _)
SplitDash(s, cur) ==
    IF s = <<>> THEN <<cur>>
    ELSE IF Head(s) = "-" THEN <<cur>> \o SplitDash(Tail(s), <<>>)
    ELSE SplitDash(Tail(s), Append(cur, Head(s)))

\* path.split('-').map(Number)
PathParts(path) ==
    LET segs == SplitDash(path, <<>>) IN [k \in DOMAIN segs |-> ToNumber(segs[k])]

ArrayCell(elems) == [kind |-> "array", elems |-> elems]

\* arr[index] is an element (not undefined)
InArray(h, arr, index) == index >= 0 /\ index < Len(h[arr].elems)

At(h, arr, index) == h[arr].elems[index + 1]

\* const copy = nodes: an alias instead of a copy
spreadArrayAlias(h, arr) == [heap |-> h, addr |-> arr]

\* nodes.map(n => ({...n})): the elements are copied too
spreadArrayDeep(h, arr) ==
    LET n == Len(h[arr].elems)
        copies == [k \in 1..n |-> h[h[arr].elems[k]]]
    IN [heap |-> (h \o copies) \o <<ArrayCell([k \in 1..n |-> Len(h) + k])>>,
        addr |-> Len(h) + n + 1]

\* [...arr]: a new array with the same elements
spreadArray(h, arr) ==
    [heap |-> Append(h, ArrayCell(h[arr].elems)), addr |-> Len(h) + 1]

\* arr[index] = value
ArraySet(h, arr, index, value) ==
    [h EXCEPT ![arr] = ArrayCell([h[arr].elems EXCEPT ![index + 1] = value])]

\* n => ({ ...n, isLoading: true, isExpanded: true }), losing the level
startDiscoverUpdaterBad(n) ==
    [n EXCEPT !.isLoading = TRUE, !.isExpanded = TRUE, !.level = n.level + 1]

\* n => ({ ...n, isLoading: true, isExpanded: true })   (line 97)
startDiscoverUpdater(n) == [n EXCEPT !.isLoading = TRUE, !.isExpanded = TRUE]

\* The updaters, with setAssessment adding the new findings to the old ones
ApplyUpdaterMerging(upd, n) ==
    CASE upd.kind = "startDiscover" -> startDiscoverUpdater(n)
      [] upd.kind = "setChildren" -> [n EXCEPT !.isLoading = FALSE, !.dependencies = upd.children]
      [] upd.kind = "stopLoading" -> [n EXCEPT !.isLoading = FALSE]
      [] upd.kind = "startAnalyze" -> [n EXCEPT !.isLoading = TRUE]
      [] upd.kind = "setAssessment" ->
            [n EXCEPT !.isLoading = FALSE,
                      !.assessment = [upd.assessment EXCEPT
                                         !.findings = n.assessment.findings \o @]]
      [] upd.kind = "toggle" -> [n EXCEPT !.isExpanded = ~n.isExpanded]

\* The updaters, with the one of the catch blocks dropping the assessment
ApplyUpdaterResetting(upd, n) ==
    CASE upd.kind = "startDiscover" -> startDiscoverUpdater(n)
      [] upd.kind = "setChildren" -> [n EXCEPT !.isLoading = FALSE, !.dependencies = upd.children]
      [] upd.kind = "stopLoading" -> [n EXCEPT !.isLoading = FALSE,
                      !.assessment = [riskLevel |-> "undefined", findings |-> <<>>,
                                      license |-> "undefined"]]
      [] upd.kind = "startAnalyze" -> [n EXCEPT !.isLoading = TRUE]
      [] upd.kind = "setAssessment" -> [n EXCEPT !.isLoading = FALSE, !.assessment = upd.assessment]
      [] upd.kind = "toggle" -> [n EXCEPT !.isExpanded = ~n.isExpanded]

\* The updaters, with the one of handleToggleExpand expanding, never collapsing
ApplyUpdaterExpanding(upd, n) ==
    CASE upd.kind = "startDiscover" -> startDiscoverUpdater(n)
      [] upd.kind = "setChildren" -> [n EXCEPT !.isLoading = FALSE, !.dependencies = upd.children]
      [] upd.kind = "stopLoading" -> [n EXCEPT !.isLoading = FALSE]
      [] upd.kind = "startAnalyze" -> [n EXCEPT !.isLoading = TRUE]
      [] upd.kind = "setAssessment" -> [n EXCEPT !.isLoading = FALSE, !.assessment = upd.assessment]
      [] upd.kind = "toggle" -> [n EXCEPT !.isExpanded = TRUE]

\* The updaters the handlers pass to updateNodeByPath
ApplyUpdater(upd, n) ==
    CASE upd.kind = "startDiscover" -> startDiscoverUpdater(n)
      [] upd.kind = "setChildren" -> [n EXCEPT !.isLoading = FALSE, !.dependencies = upd.children]
      [] upd.kind = "stopLoading" -> [n EXCEPT !.isLoading = FALSE]
      [] upd.kind = "startAnalyze" -> [n EXCEPT !.isLoading = TRUE]
      [] upd.kind = "setAssessment" -> [n EXCEPT !.isLoading = FALSE, !.assessment = upd.assessment]
      [] upd.kind = "toggle" -> [n EXCEPT !.isExpanded = ~n.isExpanded]

\* The loop of lines 21-26 from position k on, then lines 28-31.
\* threw: currentLevel[index] was undefined when its dependencies were read.
RECURSIVE Walk(_, _, _, _, _, _)
Walk(h, currentLevel, pathParts, k, upd, newNodes) ==
    IF k < Len(pathParts)
    THEN LET index == pathParts[k]
         IN IF ~InArray(h, currentLevel, index)
            THEN [heap |-> h, nodes |-> newNodes, threw |-> TRUE, called |-> FALSE]
            ELSE LET old == h[At(h, currentLevel, index)]
                     deps == spreadArray(h, old.dependencies)
                     h2 == Append(deps.heap, [old EXCEPT !.dependencies = deps.addr])
                     h3 == ArraySet(h2, currentLevel, index, Len(h2))
                 IN Walk(h3, deps.addr, pathParts, k + 1, upd, newNodes)
    ELSE LET finalIndex == pathParts[Len(pathParts)]
         IN IF InArray(h, currentLevel, finalIndex)
            THEN LET h2 == Append(h, ApplyUpdater(upd, h[At(h, currentLevel, finalIndex)]))
                 IN [heap |-> ArraySet(h2, currentLevel, finalIndex, Len(h2)),
                     nodes |-> newNodes, threw |-> FALSE, called |-> TRUE]
            ELSE [heap |-> h, nodes |-> newNodes, threw |-> FALSE, called |-> FALSE]

\* updateNodeByPath (lines 12-34)
updateNodeByPath(h, nodes, path, upd) ==
    LET top == spreadArray(h, nodes)
    IN Walk(top.heap, top.addr, PathParts(path), 1, upd, top.addr)


-----------------------------------------------------------------------------
(* The handlers of App.tsx *)

\* What discoverDependencies can return to App.tsx: up to MaxDeps records
TreeDep(k) ==
    [name |-> <<"l", "i", "b">> \o ToStr(k), url |-> <<"u">> \o ToStr(k),
     discoverySource |-> "Source Code Scan"]

DiscoveredLists == { [k \in 1..n |-> TreeDep(k)] : n \in 0..MaxDeps }

\* node.assessment of a node that was never analysed (the field is absent)
NoAssessment == [riskLevel |-> "undefined", findings |-> <<>>, license |-> "undefined"]

\* What analyzeDependency can return to App.tsx: RiskAssessment objects
Assessments ==
    { [riskLevel |-> "Low", findings |-> <<>>, license |-> "MIT"],
      [riskLevel |-> "High", findings |-> <<"CWE-120">>, license |-> "GPL-3.0"] }

RepoName == <<"r">>
RepoUrl == <<"u">>

\* A DependencyNode object as the handlers construct it (lines 75-82, 101-108).
\* bornPath, bornLevel and bornWith record what it was constructed with; the
\* array of bornWith is made for this object alone, so it tells the copies of
\* one constructed node from those of any other.
NewNode(dep, path, level, expanded, depsAddr) ==
    [kind |-> "node", name |-> dep.name, url |-> dep.url,
     discoverySource |-> dep.discoverySource, path |-> path, level |-> level,
     isLoading |-> FALSE, isExpanded |-> expanded, dependencies |-> depsAddr,
     assessment |-> NoAssessment, bornPath |-> path, bornLevel |-> level,
     bornWith |-> depsAddr]

\* dependencies.map with the children numbered from 1
MapChildrenFromOne(h, deps, parentPath, level) ==
    LET n == Len(deps)
        cells == [k \in 1..(2 * n) |->
                    IF k % 2 = 1 THEN ArrayCell(<<>>)
                    ELSE NewNode(deps[k \div 2],
                                 parentPath \o <<"-">> \o ToStr(k \div 2),
                                 level, FALSE, Len(h) + k - 1)]
    IN [heap |-> (h \o cells) \o <<ArrayCell([k \in 1..n |-> Len(h) + 2 * k])>>,
        addr |-> Len(h) + 2 * n + 1]

\* dependencies.map((dep, index) => ({...dep, path: parent-index, level, ...,
\* dependencies: []})): per child an empty array and the node, then the array
MapChildren(h, deps, parentPath, level) ==
    LET n == Len(deps)
        cells == [k \in 1..(2 * n) |->
                    IF k % 2 = 1 THEN ArrayCell(<<>>)
                    ELSE NewNode(deps[k \div 2],
                                 parentPath \o <<"-">> \o ToStr((k \div 2) - 1),
                                 level, FALSE, Len(h) + k - 1)]
    IN [heap |-> (h \o cells) \o <<ArrayCell([k \in 1..n |-> Len(h) + 2 * k])>>,
        addr |-> Len(h) + 2 * n + 1]

NoUpdate ==
    [kind |-> "none", path |-> <<>>, upd |-> [kind |-> "none"], before |-> 0,
     after |-> 0, threw |-> FALSE, called |-> FALSE, base |-> 0, top |-> 0]

\* setDependencyTree(prev => updateNodeByPath(prev, path, upd)) on heap h
SetTreeByPath(h, path, upd) ==
    LET r == updateNodeByPath(h, dependencyTree, path, upd)
    IN /\ heap' = r.heap
       /\ dependencyTree' = IF r.threw THEN dependencyTree ELSE r.nodes
       /\ crashed' = r.threw
       /\ lastUpdate' = [kind |-> "update", path |-> path, upd |-> upd,
                         before |-> dependencyTree,
                         after |-> IF r.threw THEN dependencyTree ELSE r.nodes,
                         threw |-> r.threw, called |-> r.called,
                         base |-> Len(h), top |-> Len(r.heap)]

\* The nodes DependencyNodeView renders below (and including) a node
RECURSIVE Rendered(_, _)
Rendered(h, node) ==
    {node} \cup
        IF h[node].isExpanded /\ Len(h[h[node].dependencies].elems) > 0
        THEN UNION { Rendered(h, h[h[node].dependencies].elems[k]) :
                        k \in DOMAIN h[h[node].dependencies].elems }
        ELSE {}

\* The nodes on screen: the tree is rendered when rootNode && !isLoading
Visible ==
    IF ~isLoading /\ Len(heap[dependencyTree].elems) > 0
    THEN Rendered(heap, At(heap, dependencyTree, 0))
    ELSE {}

Step == ~crashed /\ opCount < MaxOps /\ opCount' = opCount + 1

Capture(kind, node) ==
    [id |-> opCount, kind |-> kind, path |-> heap[node].path, level |-> heap[node].level,
     name |-> heap[node].name, url |-> heap[node].url, node |-> heap[node].bornWith]

\* handleInitialDiscover with an empty or malformed repoUrl (lines 47-54)
handleInitialDiscoverRejected ==
    /\ Step
    /\ ~isLoading
    /\ \E why \in {"Please enter a GitHub repository URL.",
                   "Please enter a valid GitHub repository URL."} : error' = why
    /\ UNCHANGED <<heap, dependencyTree, isLoading, rootAnalysis, ops, crashed, lastUpdate>>
    /\ UNCHANGED <<dvars, fvars, avars, cvars>>

\* Lines 56-60 of handleInitialDiscover: the state is reset
StartInitial ==
    /\ isLoading' = TRUE
    /\ error' = "null"
    /\ heap' = Append(heap, ArrayCell(<<>>))
    /\ dependencyTree' = Len(heap) + 1
    /\ rootAnalysis' = "null"
    /\ ops' = ops \cup {[id |-> opCount, kind |-> "initial", path |-> <<"0">>, level |-> 0,
                         name |-> RepoName, url |-> RepoUrl, node |-> 0]}
    /\ UNCHANGED <<crashed, lastUpdate>>

\* handleInitialDiscover up to its await (lines 56-63)
handleInitialDiscover ==
    /\ Step
    /\ ~isLoading
    /\ StartInitial
    /\ UNCHANGED <<dvars, fvars, avars, cvars>>

\* Lines 65-84 and 90-92 of handleInitialDiscover, given the dependencies returned
InitialDiscoverReturns(op, deps) ==
    /\ op.kind = "initial"
    /\ LET kids == MapChildren(heap, deps, <<"0">>, 1)
           root == NewNode([name |-> RepoName, url |-> RepoUrl,
                            discoverySource |-> "Root Repository"],
                           <<"0">>, 0, TRUE, kids.addr)
       IN /\ heap' = (kids.heap \o <<root>>) \o <<ArrayCell(<<Len(kids.heap) + 1>>)>>
          /\ dependencyTree' = Len(kids.heap) + 2
    /\ rootAnalysis' = "set"
    /\ isLoading' = FALSE
    /\ ops' = ops \ {op}
    /\ UNCHANGED <<error, crashed, lastUpdate>>

\* handleInitialDiscover after a successful discovery (lines 65-84, 90-92)
InitialDiscoverDone(op) ==
    /\ Step
    /\ \E deps \in DiscoveredLists : InitialDiscoverReturns(op, deps)
    /\ UNCHANGED <<dvars, fvars, avars, cvars>>

\* Lines 86-92 of handleInitialDiscover: the catch and the finally
InitialDiscoverThrows(op) ==
    /\ op.kind = "initial"
    /\ error' = "discovery failed"
    /\ heap' = Append(heap, ArrayCell(<<>>))
    /\ dependencyTree' = Len(heap) + 1
    /\ isLoading' = FALSE
    /\ ops' = ops \ {op}
    /\ UNCHANGED <<rootAnalysis, crashed, lastUpdate>>

\* handleInitialDiscover when discoverDependencies throws (lines 86-92)
InitialDiscoverFail(op) ==
    /\ Step
    /\ InitialDiscoverThrows(op)
    /\ UNCHANGED <<dvars, fvars, avars, cvars>>

\* Lines 97-100 of handleDiscoverChildren; the Discover button is shown for a
\* rendered node that is not loading, has no children and is not the root
DiscoverStarts(node) ==
    /\ node \in Visible
    /\ ~heap[node].isLoading
    /\ Len(heap[heap[node].dependencies].elems) = 0
    /\ heap[node].level # 0
    /\ SetTreeByPath(heap, heap[node].path, [kind |-> "startDiscover"])
    /\ error' = "null"
    /\ ops' = ops \cup {Capture("discover", node)}
    /\ UNCHANGED <<isLoading, rootAnalysis>>

\* handleDiscoverChildren up to its await (lines 97-100)
handleDiscoverChildren(node) ==
    /\ Step
    /\ DiscoverStarts(node)
    /\ UNCHANGED <<dvars, fvars, avars, cvars>>

\* Lines 101-109 with the children given the level of their parent
DiscoverReturnsSameLevel(op) ==
    /\ op.kind = "discover"
    /\ \E deps \in DiscoveredLists :
          LET childNodes == MapChildren(heap, deps, op.path, op.level)
          IN SetTreeByPath(childNodes.heap, op.path,
                           [kind |-> "setChildren", children |-> childNodes.addr])
    /\ ops' = ops \ {op}
    /\ UNCHANGED <<isLoading, error, rootAnalysis>>

\* Lines 101-109 of handleDiscoverChildren: the children are built from the
\* captured node and written at its path
DiscoverReturns(op) ==
    /\ op.kind = "discover"
    /\ \E deps \in DiscoveredLists :
          LET childNodes == MapChildren(heap, deps, op.path, op.level + 1)
          IN SetTreeByPath(childNodes.heap, op.path,
                           [kind |-> "setChildren", children |-> childNodes.addr])
    /\ ops' = ops \ {op}
    /\ UNCHANGED <<isLoading, error, rootAnalysis>>

\* handleDiscoverChildren after a successful discovery (lines 101-109)
DiscoverChildrenDone(op) ==
    /\ Step
    /\ DiscoverReturns(op)
    /\ UNCHANGED <<dvars, fvars, avars, cvars>>

\* The catch of handleDiscoverChildren without its setDependencyTree call
DiscoverThrowsKeepsLoading(op) ==
    /\ op.kind = "discover"
    /\ error' = "Failed to discover dependencies"
    /\ ops' = ops \ {op}
    /\ UNCHANGED <<heap, dependencyTree, crashed, lastUpdate, isLoading, rootAnalysis>>

\* Lines 111-114 of handleDiscoverChildren: the catch
DiscoverThrows(op) ==
    /\ op.kind = "discover"
    /\ error' = "Failed to discover dependencies"
    /\ SetTreeByPath(heap, op.path, [kind |-> "stopLoading"])
    /\ ops' = ops \ {op}
    /\ UNCHANGED <<isLoading, rootAnalysis>>

\* handleDiscoverChildren when discoverDependencies throws (lines 111-114)
DiscoverChildrenFail(op) ==
    /\ Step
    /\ DiscoverThrows(op)
    /\ UNCHANGED <<dvars, fvars, avars, cvars>>

\* Lines 121-124 of handleAnalyzeNode; the Analyze button is shown for a
\* rendered node that is not loading
AnalyzeStarts(node) ==
    /\ node \in Visible
    /\ ~heap[node].isLoading
    /\ SetTreeByPath(heap, heap[node].path, [kind |-> "startAnalyze"])
    /\ error' = "null"
    /\ ops' = ops \cup {Capture("analyze", node)}
    /\ UNCHANGED <<isLoading, rootAnalysis>>

\* handleAnalyzeNode up to its await (lines 121-124)
handleAnalyzeNode(node) ==
    /\ Step
    /\ AnalyzeStarts(node)
    /\ UNCHANGED <<dvars, fvars, avars, cvars>>

\* Line 125 of handleAnalyzeNode: the assessment returned is stored
AnalyzeReturns(op) ==
    /\ op.kind = "analyze"
    /\ \E a \in Assessments :
          SetTreeByPath(heap, op.path, [kind |-> "setAssessment", assessment |-> a])
    /\ ops' = ops \ {op}
    /\ UNCHANGED <<isLoading, error, rootAnalysis>>

\* handleAnalyzeNode after analyzeDependency returned (line 125)
AnalyzeDone(op) ==
    /\ Step
    /\ AnalyzeReturns(op)
    /\ UNCHANGED <<dvars, fvars, avars, cvars>>

\* Lines 126-129 of handleAnalyzeNode: the catch
AnalyzeThrows(op) ==
    /\ op.kind = "analyze"
    /\ error' = "Failed to analyze"
    /\ SetTreeByPath(heap, op.path, [kind |-> "stopLoading"])
    /\ ops' = ops \ {op}
    /\ UNCHANGED <<isLoading, rootAnalysis>>

\* handleAnalyzeNode when analyzeDependency throws (lines 126-129)
AnalyzeFail(op) ==
    /\ Step
    /\ AnalyzeThrows(op)
    /\ UNCHANGED <<dvars, fvars, avars, cvars>>

\* handleToggleExpand (line 136); a click on the row of a rendered node other
\* than the root (DependencyNodeView, lines 46-51)
handleToggleExpand(node) ==
    /\ Step
    /\ node \in Visible
    /\ heap[node].level # 0
    /\ SetTreeByPath(heap, heap[node].path, [kind |-> "toggle"])
    /\ UNCHANGED <<isLoading, error, rootAnalysis, ops>>
    /\ UNCHANGED <<dvars, fvars, avars, cvars>>

InitTree ==
    /\ heap = <<ArrayCell(<<>>)>>
    /\ dependencyTree = 1
    /\ isLoading = FALSE
    /\ error = "null"
    /\ rootAnalysis = "null"
    /\ ops = {}
    /\ crashed = FALSE
    /\ opCount = 0
    /\ lastUpdate = NoUpdate

-----------------------------------------------------------------------------
(* Properties of updateNodeByPath and the handlers *)

\* The index sequence names a node of the tree whose top-level array is arr
RECURSIVE Resolves(_, _, _)
Resolves(h, arr, parts) ==
    /\ parts # <<>>
    /\ InArray(h, arr, Head(parts))
    /\ Len(parts) > 1 => Resolves(h, h[At(h, arr, Head(parts))].dependencies, Tail(parts))

\* The address of the node a resolving index sequence names
RECURSIVE NodeAt(_, _, _)
NodeAt(h, arr, parts) ==
    IF Len(parts) = 1 THEN At(h, arr, Head(parts))
    ELSE NodeAt(h, h[At(h, arr, Head(parts))].dependencies, Tail(parts))

\* The index sequences of all nodes of a tree
RECURSIVE AllPaths(_, _)
AllPaths(h, arr) ==
    UNION { {<<k - 1>>} \cup
            { <<k - 1>> \o q : q \in AllPaths(h, h[h[arr].elems[k]].dependencies) } :
            k \in DOMAIN h[arr].elems }

\* The addresses of all nodes of a tree
TreeNodes(h, arr) == { NodeAt(h, arr, q) : q \in AllPaths(h, arr) }

\* The content of a tree, without addresses
RECURSIVE TreeValue(_, _)
TreeValue(h, arr) ==
    [k \in DOMAIN h[arr].elems |->
        [node |-> [h[h[arr].elems[k]] EXCEPT !.dependencies = 0],
         children |-> TreeValue(h, h[h[arr].elems[k]].dependencies)]]

LastParts == PathParts(lastUpdate.path)

\* C4: an update whose path names no node of its input does not throw, does
\* not call the updater and returns a tree with the content of its input.
C4_StalePathIsNoop ==
    (lastUpdate.kind = "update" /\ ~Resolves(heap, lastUpdate.before, LastParts))
        => /\ ~lastUpdate.threw
           /\ ~lastUpdate.called
           /\ TreeValue(heap, lastUpdate.after) = TreeValue(heap, lastUpdate.before)

\* C5: an update with a resolving path calls the updater and replaces the
\* addressed node by updater(oldNode); the top-level array and each ancestor
\* (with its child list) are fresh copies with the content they had, 2 objects
\* per path segment are allocated, and every node neither on the path nor
\* below the addressed node is the same object as before.
C5_CopyOnWriteAlongPath ==
    (lastUpdate.kind = "update" /\ Resolves(heap, lastUpdate.before, LastParts)) =>
        LET B == lastUpdate.before
            A == lastUpdate.after
            base == lastUpdate.base
        IN /\ lastUpdate.called /\ ~lastUpdate.threw
           /\ A > base
           /\ lastUpdate.top - base = 2 * Len(LastParts)
           /\ NodeAt(heap, A, LastParts) > base
           /\ heap[NodeAt(heap, A, LastParts)]
                 = ApplyUpdater(lastUpdate.upd, heap[NodeAt(heap, B, LastParts)])
           /\ \A q \in AllPaths(heap, B) :
                 IF q # LastParts /\ IsPrefix(q, LastParts)
                 THEN /\ NodeAt(heap, A, q) > base
                      /\ heap[NodeAt(heap, A, q)].dependencies > base
                      /\ [heap[NodeAt(heap, A, q)] EXCEPT !.dependencies = 0]
                            = [heap[NodeAt(heap, B, q)] EXCEPT !.dependencies = 0]
                      /\ Len(heap[heap[NodeAt(heap, A, q)].dependencies].elems)
                            = Len(heap[heap[NodeAt(heap, B, q)].dependencies].elems)
                 ELSE IF IsPrefix(LastParts, q) THEN TRUE
                 ELSE /\ Resolves(heap, A, q)
                      /\ NodeAt(heap, A, q) = NodeAt(heap, B, q)

\* C5 witness: an update two levels down while a sibling of the path has a
\* subtree of its own
C5_Witness ==
    /\ lastUpdate.kind = "update"
    /\ lastUpdate.called
    /\ Len(LastParts) >= 2
    /\ \E q \in AllPaths(heap, lastUpdate.before) :
          Len(q) >= 3 /\ ~IsPrefix(q, LastParts) /\ ~IsPrefix(LastParts, q)

\* C6: no step changes an object that exists: every array and node keeps the
\* content it had, so every tree handed out earlier stays as it was.
C6_SnapshotsImmutable ==
    [][\A a \in DOMAIN heap : a \in DOMAIN heap' /\ heap'[a] = heap[a]]_vars

\* C6 witness: an update changed the tree's content while another handler is
\* still suspended
C6_Witness ==
    /\ lastUpdate.kind = "update"
    /\ lastUpdate.called
    /\ Len(LastParts) >= 2
    /\ TreeValue(heap, lastUpdate.after) # TreeValue(heap, lastUpdate.before)
    /\ \E op \in ops : op.path # lastUpdate.path

\* C7: every node of the tree has the path and level it was constructed with.
C7_PathAndLevelStable ==
    \A a \in TreeNodes(heap, dependencyTree) :
        heap[a].path = heap[a].bornPath /\ heap[a].level = heap[a].bornLevel

\* C7 witness: discoverChildren has given a node children, and a later update
\* by another handler has been applied
C7_Witness ==
    /\ \E a \in TreeNodes(heap, dependencyTree) :
          heap[a].level = 1 /\ Len(heap[heap[a].dependencies].elems) > 0
    /\ lastUpdate.called
    /\ lastUpdate.upd.kind \in {"toggle", "startAnalyze", "setAssessment"}

\* The path string of an index sequence: the indices joined by "-"
RECURSIVE JoinPath(_)
JoinPath(q) ==
    IF Len(q) = 1 THEN ToStr(q[1])
    ELSE (JoinPath(SubSeq(q, 1, Len(q) - 1)) \o <<"-">>) \o ToStr(q[Len(q)])

\* C19: in the tree the root has path 0 and level 0, the child at index i of
\* a node P has path P.path-i and level P.level + 1, and the path of every
\* node, split and walked from the top-level array as updateNodeByPath does,
\* names that node; whatever the handlers did before, a discoverChildren that
\* completes after the tree was rebuilt included.
C19_PathMatchesPosition ==
    \A q \in AllPaths(heap, dependencyTree) :
        LET a == NodeAt(heap, dependencyTree, q)
        IN /\ Len(q) = 1 =>
                 q = <<0>> /\ heap[a].path = <<"0">> /\ heap[a].level = 0
           /\ Len(q) > 1 =>
                 LET P == heap[NodeAt(heap, dependencyTree, SubSeq(q, 1, Len(q) - 1))]
                 IN /\ heap[a].path = (P.path \o <<"-">>) \o ToStr(q[Len(q)])
                    /\ heap[a].level = P.level + 1
           /\ heap[a].path = JoinPath(q)
           /\ Resolves(heap, dependencyTree, PathParts(heap[a].path))
           /\ NodeAt(heap, dependencyTree, PathParts(heap[a].path)) = a

\* C19 witness: a discoverChildren started on an earlier tree has completed
\* on the tree built since: the node it wrote to was not loading, and it got
\* children
C19_Witness ==
    /\ lastUpdate.kind = "update"
    /\ lastUpdate.upd.kind = "setChildren"
    /\ lastUpdate.called
    /\ ~heap[NodeAt(heap, lastUpdate.before, LastParts)].isLoading
    /\ Len(heap[heap[NodeAt(heap, lastUpdate.after, LastParts)].dependencies].elems) > 0
    /\ dependencyTree = lastUpdate.after

\* C20: an update by discoverChildren, analyzeNode or toggleExpand removes no
\* node: every position of the tree before the update is a position of the
\* tree after it.
C20_NoNodeRemoved ==
    lastUpdate.kind = "update" =>
        \A q \in AllPaths(heap, lastUpdate.before) : Resolves(heap, lastUpdate.after, q)

\* The node an update addressed, in the tree before and in the tree after it
UpdatedBefore == heap[NodeAt(heap, lastUpdate.before, LastParts)]
UpdatedAfter == heap[NodeAt(heap, lastUpdate.after, LastParts)]

\* The fields of a node other than the given ones: the children by content
Frame(n) ==
    [name |-> n.name, url |-> n.url, discoverySource |-> n.discoverySource,
     path |-> n.path, level |-> n.level, isExpanded |-> n.isExpanded,
     children |-> TreeValue(heap, n.dependencies)]

\* C21: a successful analyzeNode stores the assessment it got in place of the
\* one the node had, whole (no field and no finding of the old one is kept),
\* and changes nothing else on the node but isLoading.
C21_ReanalysisOverwrites ==
    (lastUpdate.kind = "update" /\ lastUpdate.upd.kind = "setAssessment"
       /\ lastUpdate.called) =>
        /\ UpdatedAfter.assessment = lastUpdate.upd.assessment
        /\ ~UpdatedAfter.isLoading
        /\ Frame(UpdatedAfter) = Frame(UpdatedBefore)

\* C21 witness: the node analysed already carried another assessment, one
\* with findings
C21_Witness ==
    /\ lastUpdate.kind = "update"
    /\ lastUpdate.upd.kind = "setAssessment"
    /\ lastUpdate.called
    /\ UpdatedBefore.assessment \in Assessments
    /\ UpdatedBefore.assessment # lastUpdate.upd.assessment
    /\ Len(UpdatedBefore.assessment.findings) > 0
    /\ dependencyTree = lastUpdate.after

\* C25: when a discoverChildren or analyzeNode completes and its updater is
\* applied, the node it is applied to is the node the handler was started on
\* (a copy of the object captured at the start), not another node that
\* occupies the same path in a tree built since.
C25_WritesOnlyToItsNode ==
    [][\A op \in ops :
          (op \notin ops' /\ op.kind \in {"discover", "analyze"} /\ lastUpdate'.called)
              => heap'[NodeAt(heap', lastUpdate'.before, PathParts(op.path))].bornWith
                    = op.node]_vars

\* C26: in every state, a node of the tree at whose path a discoverChildren
\* or analyzeNode is still in flight has isLoading = true (so no completion
\* has cleared the flag while another operation on that path is running).
C26_LoadingWhileInFlight ==
    \A op \in ops :
        (op.kind \in {"discover", "analyze"}
           /\ Resolves(heap, dependencyTree, PathParts(op.path)))
            => heap[NodeAt(heap, dependencyTree, PathParts(op.path))].isLoading

-----------------------------------------------------------------------------
(* analyzeDependency (geminiService.ts, lines 262-308) *)

RiskLevels == {"Low", "Medium", "High", "Critical"}

CweFinding(k) == [cweId |-> "CWE-120", cves |-> k]

FindingLists == { [k \in 1..n |-> CweFinding(k)] : n \in 0..MaxFindings }

\* A RiskAssessment object as the reasoning service may answer it
Assessment(level, findings, spdx) ==
    [k |-> "object",
     maintainerAnalysis |-> "maintained",
     codeSecurityAnalysis |-> "reviewed",
     licenseAnalysis |-> [spdxId |-> spdx, complianceSummary |-> "permissive"],
     vulnerabilityAnalysis |-> findings,
     riskLevel |-> level,
     riskSummary |-> "summary"]

\* JSON values the assessment answer may hold: assessments, null, false
AssessmentValues ==
    { Assessment(level, findings, spdx) :
        level \in RiskLevels, findings \in FindingLists, spdx \in {"MIT", "GPL-3.0"} }
        \cup { JsonNull, [k |-> "false"] }

\* The object literal of lines 298-305
FallbackAssessment ==
    [k |-> "object",
     maintainerAnalysis |-> "Could not analyze maintainers.",
     codeSecurityAnalysis |-> "Could not perform code security analysis.",
     licenseAnalysis |-> [spdxId |-> "Unknown",
                          complianceSummary |-> "Failed to perform AI analysis on the license."],
     vulnerabilityAnalysis |-> <<>>,
     riskLevel |-> "Critical",
     riskSummary |-> "Failed to perform AI analysis. Treat with extreme caution."]

\* !value of JavaScript for the values above
Falsy(v) == v.k \in {"null", "false"}

\* Lines 295-307 with the fallback left out: the parsed value is returned as it is
analyzeDependencyNoFallback(out) ==
    IF out.threw THEN [threw |-> TRUE, value |-> JsonNull]
    ELSE [threw |-> FALSE, value |-> parseGeminiJson(out.text)]

\* Lines 289-307: what the call returns or that it throws, given the answer
analyzeDependency(out) ==
    IF out.threw THEN [threw |-> TRUE, value |-> JsonNull]
    ELSE LET assessment == parseGeminiJson(out.text)
         IN IF Falsy(assessment)
            THEN [threw |-> FALSE, value |-> FallbackAssessment]
            ELSE [threw |-> FALSE, value |-> assessment]

NoAnswer == [threw |-> FALSE, text |-> <<TSpace>>]

AnalyzeArgs ==
    [dependencyName : {<<"a">>, <<"b">>}, dependencyUrl : {"u1", "u2"},
     compilationDate : {"2024-01-01"}]

\* Lines 268-293: the call up to its await; generateContent has been called once
AnalyzeStart ==
    /\ apc \in {"idle", "returned", "threw"}
    /\ \E a \in AnalyzeArgs : aargs' = a
    /\ apc' = "awaiting"
    /\ aanswer' = NoAnswer
    /\ aresult' = JsonNull
    /\ acalls' = 1
    /\ UNCHANGED <<dvars, fvars, tvars, cvars>>

\* Lines 289-307: generateContent settles and the call returns or throws
AnalyzeAnswer ==
    /\ apc = "awaiting"
    /\ \E out \in GenerateOutcomes(AssessmentValues) :
          /\ aanswer' = out
          /\ aresult' = analyzeDependency(out).value
          /\ apc' = IF analyzeDependency(out).threw THEN "threw" ELSE "returned"
    /\ UNCHANGED <<aargs, acalls>>
    /\ UNCHANGED <<dvars, fvars, tvars, cvars>>

InitAnalyze ==
    /\ apc = "idle"
    /\ aargs = [dependencyName |-> <<"a">>, dependencyUrl |-> "u1",
                compilationDate |-> "2024-01-01"]
    /\ aanswer = NoAnswer
    /\ aresult = JsonNull
    /\ acalls = 0

\* The call is over and its answer was a text JSON.parse rejects
UnparsableAnswer ==
    /\ apc \in {"returned", "threw"}
    /\ ~aanswer.threw
    /\ ~JsonParses(cleanedText(aanswer.text))

FailureMarkers ==
    {"Could not analyze maintainers.",
     "Could not perform code security analysis.",
     "Unknown",
     "Failed to perform AI analysis on the license.",
     "Failed to perform AI analysis. Treat with extreme caution."}

\* C11: when the assessment answer is unparsable, analyzeDependency returns
\* (does not throw) an assessment with riskLevel Critical, a non-empty
\* riskSummary, a failure marker in every textual field and no findings.
C11_FallbackAssessment ==
    UnparsableAnswer =>
        /\ apc = "returned"
        /\ aresult.k = "object"
        /\ aresult.riskLevel = "Critical"
        /\ aresult.riskSummary # ""
        /\ aresult.riskSummary \in FailureMarkers
        /\ aresult.maintainerAnalysis \in FailureMarkers
        /\ aresult.codeSecurityAnalysis \in FailureMarkers
        /\ aresult.licenseAnalysis.spdxId \in FailureMarkers
        /\ aresult.licenseAnalysis.complianceSummary \in FailureMarkers
        /\ aresult.vulnerabilityAnalysis = <<>>

\* C11 witness: a call that was answered with a fenced text holding no JSON
\* value has returned
C11_Witness ==
    /\ apc = "returned"
    /\ aanswer = [threw |-> FALSE, text |-> <<TFence, TSpace, TJunk, TClose>>]
    /\ aresult = FallbackAssessment

-----------------------------------------------------------------------------
(* throttledFetch: what it does with one response (githubService.ts, lines 27-43) *)

\* headers.get(name): null when the header is absent, otherwise its text
NoHeader == [present |-> FALSE, text |-> <<>>]
Header(text) == [present |-> TRUE, text |-> text]

IsNumeric(text) == \A k \in DOMAIN text : \E d \in DOMAIN Digits : Digits[d] = text[k]

\* Number(headers.get(name)): Number(null) is 0, Number of other text is NaN
NumberOfHeader(h) ==
    IF ~h.present THEN [nan |-> FALSE, v |-> 0]
    ELSE IF IsNumeric(h.text) THEN [nan |-> FALSE, v |-> ToNumber(h.text)]
    ELSE [nan |-> TRUE, v |-> 0]

Max(a, b) == IF a > b THEN a ELSE b

MS_PER_MINUTE == 1000 * 60

\* Lines 32-34: waitMinutes from the reset header, NaN when the header is no number
waitMinutes(reset, now) ==
    LET n == NumberOfHeader(reset)
        resetTime == n.v * 1000
        waitTime == Max(0, resetTime - now)
    IN IF n.nan THEN [nan |-> TRUE, v |-> 0]
       ELSE [nan |-> FALSE, v |-> CeilDiv(waitTime, MS_PER_MINUTE)]

FetchStatuses == {200, 204, 304, 403, 404, 500}

FetchResponses ==
    [status : FetchStatuses,
     remaining : {NoHeader, Header(<<"0">>), Header(<<"5", "9">>)},
     reset : {NoHeader, Header(<<"1">>), Header(<<"6", "1">>), Header(<<"x">>)}]

\* throttledFetch with every 403 taken for a rate limit
throttledFetchAny403(url, resp, now) ==
    IF resp.status >= 200 /\ resp.status <= 299 THEN [kind |-> "ok", response |-> resp]
    ELSE IF resp.status = 403
    THEN [kind |-> "RateLimited", waitMinutes |-> waitMinutes(resp.reset, now)]
    ELSE IF resp.status = 404 THEN [kind |-> "NotFound", url |-> url]
    ELSE [kind |-> "RequestFailed", url |-> url, status |-> resp.status]

\* Lines 30-43: the response returned, or the error thrown with what its message carries
throttledFetch(url, resp, now) ==
    IF resp.status >= 200 /\ resp.status <= 299 THEN [kind |-> "ok", response |-> resp]
    ELSE IF resp.status = 403 /\ resp.remaining = Header(<<"0">>)
    THEN [kind |-> "RateLimited", waitMinutes |-> waitMinutes(resp.reset, now)]
    ELSE IF resp.status = 404 THEN [kind |-> "NotFound", url |-> url]
    ELSE [kind |-> "RequestFailed", url |-> url, status |-> resp.status]

FetchUrls == {"repos/o/r", "repos/o/r/contents/f"}

FetchInputs == [sent : {TRUE}, url : FetchUrls, resp : FetchResponses,
                now : {StartClock, 2 * StartClock}]

NoOutcome == [kind |-> "none"]

\* Line 27: a request goes out; its response will be resp, handled at time now
FetchSent ==
    /\ \E in \in FetchInputs : cin' = in
    /\ cout' = NoOutcome
    /\ UNCHANGED <<dvars, fvars, tvars, avars>>

\* Lines 30-43: the response is handled
FetchSettled ==
    /\ cin.sent
    /\ cout = NoOutcome
    /\ cout' = throttledFetch(cin.url, cin.resp, cin.now)
    /\ UNCHANGED cin
    /\ UNCHANGED <<dvars, fvars, tvars, avars>>

InitClassify ==
    /\ cin = [sent |-> FALSE, url |-> "repos/o/r",
              resp |-> [status |-> 200, remaining |-> NoHeader, reset |-> NoHeader],
              now |-> StartClock]
    /\ cout = NoOutcome

\* C17: a 2xx response is returned; a 403 whose remaining header is 0 throws
\* the rate-limit error, whose wait is computed from the reset header and is
\* never negative; another 404 throws the not-found error naming the url; any
\* other status throws the generic error carrying url and status. The kind
\* agrees with the classification used by the discovery run.
C17_FailureClassification ==
    cout # NoOutcome =>
        LET r == cin.resp
            ok == r.status \in 200..299
            limited == ~ok /\ r.status = 403 /\ r.remaining.present /\ r.remaining.text = <<"0">>
            missing == ~ok /\ ~limited /\ r.status = 404
        IN /\ ok <=> cout.kind = "ok"
           /\ ok => cout.response = r
           /\ limited <=> cout.kind = "RateLimited"
           /\ limited =>
                 \/ cout.waitMinutes.nan /\ r.reset.present /\ ~IsNumeric(r.reset.text)
                 \/ /\ ~cout.waitMinutes.nan
                    /\ cout.waitMinutes.v >= 0
                    /\ cout.waitMinutes.v * MS_PER_MINUTE >= ToNumber(r.reset.text) * 1000 - cin.now
                    /\ (cout.waitMinutes.v - 1) * MS_PER_MINUTE < Max(0, ToNumber(r.reset.text) * 1000 - cin.now)
                          \/ cout.waitMinutes.v = 0
           /\ missing <=> cout.kind = "NotFound"
           /\ missing => cout.url = cin.url
           /\ (~ok /\ ~limited /\ ~missing) <=> cout.kind = "RequestFailed"
           /\ cout.kind = "RequestFailed" => cout.url = cin.url /\ cout.status = r.status
           /\ cout.kind = throttledFetchOutcome(
                              [status |-> r.status,
                               remaining |-> IF r.remaining = Header(<<"0">>) THEN "0" ELSE "59"])

\* C17 witness: a rate-limit answer whose reset time lies in the past: the wait is 0
C17_Witness ==
    /\ cout.kind = "RateLimited"
    /\ cin.resp.reset = Header(<<"1">>)
    /\ cin.now > 1000
    /\ cout.waitMinutes = [nan |-> FALSE, v |-> 0]

-----------------------------------------------------------------------------
(* An initial discovery end to end: handleInitialDiscover of App.tsx running   *)
(* discoverDependencies on a repository with one manifest, whose extraction    *)
(* reports LibA, and a few source files in one batch, whose extraction reports *)
(* LibB                                                                        *)

LibA == [name |-> <<"A">>, url |-> "u2"]
LibB == [name |-> <<"b">>, url |-> "u1"]

ScenarioManifestAnswers ==
    { [threw |-> FALSE, text |-> t] :
        t \in { PlainText(JsonObject("PlatformIO", <<LibA>>)),
                FencedText(JsonObject("PlatformIO", <<LibA>>)) } }

ScenarioBatchAnswers ==
    { [threw |-> FALSE, text |-> t] :
        t \in { PlainText(JsonObject("", <<LibB>>)),
                FencedText(JsonObject("", <<LibB>>)) } }

\* handleInitialDiscover, lines 56-63, with the call of discoverDependencies it
\* makes; the first discovery after the page was loaded
InitialDiscoverCalls ==
    /\ Step
    /\ ~isLoading
    /\ phase = "idle"
    /\ StartInitial
    /\ StartRun
    /\ UNCHANGED <<fvars, avars, cvars>>

\* handleInitialDiscover, lines 63-84: the run has returned its result
InitialDiscoverGets(op) ==
    /\ Step
    /\ phase = "done"
    /\ InitialDiscoverReturns(op, result.dependencies)
    /\ UNCHANGED <<dvars, fvars, avars, cvars>>

\* handleInitialDiscover, lines 86-92: the run has thrown
InitialDiscoverCatches(op) ==
    /\ Step
    /\ phase = "failed"
    /\ InitialDiscoverThrows(op)
    /\ UNCHANGED <<dvars, fvars, avars, cvars>>

RootNode == heap[At(heap, dependencyTree, 0)]

RootChildren == heap[RootNode.dependencies].elems

\* C18: in the scenario the run returns exactly LibA (Build Manifest) then
\* LibB (Source Code Scan), and the tree built from it is one root at path 0,
\* level 0, with exactly two children, LibA at path 0-0 and LibB at path 0-1,
\* both at level 1 and without children.
C18_EndToEnd ==
    /\ result.returned =>
          result.dependencies
              = <<[name |-> LibA.name, url |-> LibA.url, discoverySource |-> "Build Manifest"],
                  [name |-> LibB.name, url |-> LibB.url, discoverySource |-> "Source Code Scan"]>>
    /\ rootAnalysis = "set" =>
          /\ Len(heap[dependencyTree].elems) = 1
          /\ RootNode.path = <<"0">> /\ RootNode.level = 0
          /\ Len(RootChildren) = 2
          /\ heap[RootChildren[1]].path = <<"0", "-", "0">>
          /\ heap[RootChildren[1]].name = LibA.name
          /\ heap[RootChildren[1]].discoverySource = "Build Manifest"
          /\ heap[RootChildren[2]].path = <<"0", "-", "1">>
          /\ heap[RootChildren[2]].name = LibB.name
          /\ heap[RootChildren[2]].discoverySource = "Source Code Scan"
          /\ \A k \in 1..2 :
                /\ heap[RootChildren[k]].level = 1
                /\ heap[heap[RootChildren[k]].dependencies].elems = <<>>

\* C18 witness: the tree of the scenario has been built
C18_Witness ==
    /\ rootAnalysis = "set"
    /\ ~isLoading
    /\ Len(sourceFilePaths) = ScenarioSources
    /\ Len(manifestPaths) = 1
    /\ Len(RootChildren) = 2

\* C29: the registry never holds a record with an empty name, whichever
\* phase reported it and wherever in the reported list it stood: every key is
\* the lower-cased name of the record stored under it, and every record of
\* the returned dependency list has a non-empty name.
C29_NoEmptyName ==
    /\ \A k \in DOMAIN allDependencies :
          /\ allDependencies[k].dep.name # <<>>
          /\ allDependencies[k].key = toLowerCase(allDependencies[k].dep.name)
    /\ result.returned =>
          \A k \in DOMAIN result.dependencies : result.dependencies[k].name # <<>>

\* C29 witness: a source batch reported a record with an empty name behind a
\* named one, and the registry took the named one
C29_Witness ==
    /\ Len(lastAdded) = 2
    /\ lastAdded[1].name # <<>>
    /\ lastAdded[2].name = <<>>
    /\ lastAdded[2].discoverySource = "Source Code Scan"
    /\ Len(allDependencies) >= 1
    /\ allDependencies[Len(allDependencies)].dep = lastAdded[1]

\* The keys of the dependencies a source batch added: those the registry
\* holds after the merge and did not hold before it
FirstReportedNow == KeySet(allDependencies') \ KeySet(allDependencies)

\* C23: the names passed to the extraction call of a batch are the keys the
\* registry holds when the call is made, that is after the manifest phase and
\* the earlier batches were merged, in the registry's order; for the first
\* batch they are none when the manifest phase found no dependency; no name
\* first stored by this batch or a later one is among them.
C23_ExistingNamesPassed ==
    [][phase = "scanExtract" =>
          /\ existingDeps' = MapKeys(allDependencies)
          /\ IsPrefix(existingDeps', MapKeys(allDependencies'))
          /\ \A k \in DOMAIN existingDeps' : existingDeps'[k] \notin FirstReportedNow
          /\ (scanI = 0 /\ (manifestParsed # "ok" \/ ~\E k \in DOMAIN allDependencies :
                                  allDependencies[k].dep.discoverySource = "Build Manifest"))
                => existingDeps' = <<>>]_vars

\* C23 witness: the call of a later batch was passed the key of a manifest
\* dependency reported with capitals and the key an earlier batch added, and
\* its batch added one more
C23_Witness ==
    /\ scanI > BATCH_SIZE
    /\ Len(existingDeps) >= 2
    /\ Len(allDependencies) > Len(existingDeps)
    /\ allDependencies[1].dep.discoverySource = "Build Manifest"
    /\ allDependencies[1].dep.name # allDependencies[1].key
    /\ allDependencies[2].dep.discoverySource = "Source Code Scan"

-----------------------------------------------------------------------------
(* The calls of the reasoning service: one call of discoverDependencies or of
   analyzeDependency *)

\* discoverDependencies is called; no analyzeDependency call was made
ServiceDiscoverStarts ==
    /\ apc = "idle"
    /\ discoverDependencies

\* analyzeDependency is called; no discoverDependencies call was made
ServiceAnalyzeStarts ==
    /\ phase = "idle"
    /\ AnalyzeStart

\* The extraction calls of a kind issued so far by the run
CallsOf(kind) == { k \in DOMAIN calls : calls[k].kind = kind }

\* The number of source batches: one per BATCH_SIZE files, the last one shorter
NumBatches == (Len(sourceFilePaths) + BATCH_SIZE - 1) \div BATCH_SIZE

-----------------------------------------------------------------------------
(* Repeated discoveries: the discovery handlers of App.tsx over a longer run *)

LongStep == ~crashed /\ opCount < MaxLongOps /\ opCount' = opCount + 1

\* handleInitialDiscover up to its await (lines 56-63)
LongInitialDiscover ==
    /\ LongStep
    /\ ~isLoading
    /\ StartInitial
    /\ UNCHANGED <<dvars, fvars, avars, cvars>>

\* handleInitialDiscover after a successful discovery (lines 65-84, 90-92)
LongInitialDiscoverDone(op) ==
    /\ LongStep
    /\ \E deps \in DiscoveredLists : InitialDiscoverReturns(op, deps)
    /\ UNCHANGED <<dvars, fvars, avars, cvars>>

\* handleDiscoverChildren up to its await (lines 97-100)
LongDiscoverChildren(node) ==
    /\ LongStep
    /\ DiscoverStarts(node)
    /\ UNCHANGED <<dvars, fvars, avars, cvars>>

\* handleDiscoverChildren after a successful discovery (lines 101-109)
LongDiscoverChildrenDone(op) ==
    /\ LongStep
    /\ DiscoverReturns(op)
    /\ UNCHANGED <<dvars, fvars, avars, cvars>>

-----------------------------------------------------------------------------
(* The asynchronous handlers of App.tsx when every awaited call settles: a
   bounded number of handlers is started and each may run to its end *)

SettleStart == ~crashed /\ opCount < MaxStarts /\ opCount' = opCount + 1
SettleEnd == ~crashed /\ UNCHANGED opCount

\* handleInitialDiscover up to its await (lines 56-63)
SettleInitialDiscover ==
    /\ SettleStart
    /\ ~isLoading
    /\ StartInitial
    /\ UNCHANGED <<dvars, fvars, avars, cvars>>

\* handleInitialDiscover after its await (lines 65-92)
SettleInitialDiscoverEnd(op) ==
    /\ SettleEnd
    /\ \/ \E deps \in DiscoveredLists : InitialDiscoverReturns(op, deps)
       \/ InitialDiscoverThrows(op)
    /\ UNCHANGED <<dvars, fvars, avars, cvars>>

\* handleDiscoverChildren up to its await (lines 97-100)
SettleDiscoverChildren(node) ==
    /\ SettleStart
    /\ DiscoverStarts(node)
    /\ UNCHANGED <<dvars, fvars, avars, cvars>>

\* handleDiscoverChildren after its await (lines 101-117)
SettleDiscoverChildrenEnd(op) ==
    /\ SettleEnd
    /\ DiscoverReturns(op) \/ DiscoverThrows(op)
    /\ UNCHANGED <<dvars, fvars, avars, cvars>>

\* handleAnalyzeNode up to its await (lines 121-124)
SettleAnalyzeNode(node) ==
    /\ SettleStart
    /\ AnalyzeStarts(node)
    /\ UNCHANGED <<dvars, fvars, avars, cvars>>

\* handleAnalyzeNode after its await (lines 125-132)
SettleAnalyzeNodeEnd(op) ==
    /\ SettleEnd
    /\ AnalyzeReturns(op) \/ AnalyzeThrows(op)
    /\ UNCHANGED <<dvars, fvars, avars, cvars>>

\* Some suspended handler resumes: its awaited call returned or failed
SomeHandlerEnds ==
    \E op \in ops :
        \/ SettleInitialDiscoverEnd(op)
        \/ SettleDiscoverChildrenEnd(op)
        \/ SettleAnalyzeNodeEnd(op)

\* The discoverChildren or analyzeNode started as the k-th handler is suspended
InFlight(k) == \E op \in ops : op.id = k /\ op.kind \in {"discover", "analyze"}

\* The nodes of the tree with isLoading = true
LoadingNodes == { a \in TreeNodes(heap, dependencyTree) : heap[a].isLoading }

NodeValue(h, a) == [h[a] EXCEPT !.dependencies = 0]

ToggleStep == lastUpdate' # lastUpdate /\ lastUpdate'.upd.kind = "toggle"

\* C30: a toggleExpand on a node of the tree flips isExpanded of that node
\* and leaves its other fields and its children as they were, and every other
\* node too, adding and removing none; a second toggleExpand at the same
\* path, with the tree untouched in between, gives a tree with the content
\* the tree had before the first.
C30_ToggleFlipsAndUndoes ==
    [][ToggleStep =>
          LET parts == PathParts(lastUpdate'.path)
          IN /\ lastUpdate'.called
             /\ lastUpdate'.before = dependencyTree /\ lastUpdate'.after = dependencyTree'
             /\ AllPaths(heap', dependencyTree') = AllPaths(heap, dependencyTree)
             /\ \A q \in AllPaths(heap, dependencyTree) :
                   LET old == NodeValue(heap, NodeAt(heap, dependencyTree, q))
                       new == NodeValue(heap', NodeAt(heap', dependencyTree', q))
                   IN IF q = parts
                      THEN new = [old EXCEPT !.isExpanded = ~old.isExpanded]
                      ELSE new = old
             /\ (lastUpdate.upd.kind = "toggle" /\ lastUpdate.path = lastUpdate'.path
                   /\ lastUpdate.after = dependencyTree)
                    => TreeValue(heap', dependencyTree')
                          = TreeValue(heap, lastUpdate.before)]_vars

\* C30 witness: the fourth handler step, after the tree was built and a node
\* below the root was expanded by a toggleExpand, is a toggleExpand that has
\* collapsed that node again
C30_Witness ==
    /\ opCount = 4
    /\ lastUpdate.kind = "update"
    /\ lastUpdate.upd.kind = "toggle"
    /\ lastUpdate.called
    /\ dependencyTree = lastUpdate.after
    /\ UpdatedBefore.level = 1
    /\ UpdatedBefore.isExpanded /\ ~UpdatedBefore.isLoading
    /\ ~UpdatedAfter.isExpanded
    /\ Cardinality(AllPaths(heap, dependencyTree)) > 2

-----------------------------------------------------------------------------
(* Specifications *)

Init == InitDiscover /\ InitFetch /\ InitTree /\ InitAnalyze /\ InitClassify

NextDiscover ==
    \/ discoverDependencies
    \/ TreeFails
    \/ TreeListed
    \/ ManifestFetch
    \/ ManifestExtract
    \/ ScanFetch
    \/ ScanExtract
    \/ LicenseFetch
    \/ LicenseExtract
    \/ Finalize

SpecDiscover == Init /\ [][NextDiscover]_vars

NextFetch ==
    \/ \E p \in Callers : Call(p)
    \/ \E p \in Callers : Wake(p)
    \/ \E p \in Callers : Respond(p)
    \/ Tick

SpecFetch == Init /\ [][NextFetch]_vars

NextFetchSequential ==
    \/ \E p \in Callers : SequentialCall(p)
    \/ \E p \in Callers : Wake(p)
    \/ \E p \in Callers : Respond(p)
    \/ Tick

SpecFetchSequential == Init /\ [][NextFetchSequential]_vars

NextTree ==
    \/ handleInitialDiscoverRejected
    \/ handleInitialDiscover
    \/ \E op \in ops : InitialDiscoverDone(op)
    \/ \E op \in ops : InitialDiscoverFail(op)
    \/ \E node \in Visible : handleDiscoverChildren(node)
    \/ \E op \in ops : DiscoverChildrenDone(op)
    \/ \E op \in ops : DiscoverChildrenFail(op)
    \/ \E node \in Visible : handleAnalyzeNode(node)
    \/ \E op \in ops : AnalyzeDone(op)
    \/ \E op \in ops : AnalyzeFail(op)
    \/ \E node \in Visible : handleToggleExpand(node)

SpecTree == Init /\ [][NextTree]_vars

NextAnalyze ==
    \/ AnalyzeStart
    \/ AnalyzeAnswer

SpecAnalyze == Init /\ [][NextAnalyze]_vars

NextClassify ==
    \/ FetchSent
    \/ FetchSettled

SpecClassify == Init /\ [][NextClassify]_vars

NextEndToEnd ==
    \/ InitialDiscoverCalls
    \/ TreeFails
    \/ \E lic \in BOOLEAN : TreeListedWith(1, ScenarioSources, lic)
    \/ ManifestFetch
    \/ \E out \in ScenarioManifestAnswers : ManifestExtractWith(out)
    \/ ScanFetch
    \/ (\E out \in ScenarioBatchAnswers : ScanExtractWith(out)) /\ existingDeps' = <<>>
    \/ LicenseFetch
    \/ LicenseExtract
    \/ Finalize
    \/ \E op \in ops : InitialDiscoverGets(op)
    \/ \E op \in ops : InitialDiscoverCatches(op)

SpecEndToEnd == Init /\ [][NextEndToEnd]_vars

NextRediscover ==
    \/ LongInitialDiscover
    \/ \E op \in ops : LongInitialDiscoverDone(op)
    \/ \E node \in Visible : LongDiscoverChildren(node)
    \/ \E op \in ops : LongDiscoverChildrenDone(op)

SpecRediscover == Init /\ [][NextRediscover]_vars

NextScan ==
    \/ discoverDependencies
    \/ TreeFails
    \/ TreeListed
    \/ ManifestFetch
    \/ ManifestExtract
    \/ ScanFetch
    \/ ScanExtractObserved
    \/ LicenseFetch
    \/ LicenseExtract
    \/ Finalize

SpecScan == Init /\ [][NextScan]_vars

NextService ==
    \/ ServiceDiscoverStarts
    \/ TreeFails
    \/ TreeListed
    \/ ManifestFetch
    \/ ManifestExtract
    \/ ScanFetch
    \/ ScanExtract
    \/ LicenseFetch
    \/ LicenseExtract
    \/ Finalize
    \/ ServiceAnalyzeStarts
    \/ AnalyzeAnswer

SpecService == Init /\ [][NextService]_vars

NextSettle ==
    \/ SettleInitialDiscover
    \/ \E op \in ops : SettleInitialDiscoverEnd(op)
    \/ \E node \in Visible : SettleDiscoverChildren(node)
    \/ \E op \in ops : SettleDiscoverChildrenEnd(op)
    \/ \E node \in Visible : SettleAnalyzeNode(node)
    \/ \E op \in ops : SettleAnalyzeNodeEnd(op)

\* Every awaited call returns or fails in the end: WF_vars(SomeHandlerEnds),
\* with ENABLED <<SomeHandlerEnds>>_vars written out as what it amounts to
\* (a handler is suspended and the application is mounted)
HandlersSettle ==
    \/ []<>(crashed \/ ops = {})
    \/ []<><<SomeHandlerEnds>>_vars

SpecSettle == Init /\ [][NextSettle]_vars /\ HandlersSettle

====
